---------------------------- MODULE Spec2Model ----------------------------
(***************************************************************************)
(* A model of the KML codec of src/src/ol/format/KML.js: the primitive     *)
(* readers and writers (colours, numbers, coordinate tuples, URIs), the    *)
(* geometry codec, the placemark property bag, and the codec instance with *)
(* its shared-style registry and the style functions of decoded features.  *)
(*                                                                         *)
(* Text is a sequence of one-character strings.  A number is a decimal     *)
(* [m, e] standing for m * 10^e, kept normalised (m carries no trailing    *)
(* zero), which is the shortest decimal JavaScript prints for a double.    *)
(***************************************************************************)
EXTENDS Integers, Sequences, FiniteSets, TLC

VARIABLES
    \* the codec instance (KML constructor, KML.js 262-311)
    defaultStyle_, extractStyles_, writeStyles_, showPointNames_, sharedStyles_,
    \* a decode call in progress: what is left to parse, and its accumulator
    pc, baseURI, todo, acc,
    \* what the caller holds: the returned features and the last style asked for
    features, lastStyle, calls,
    \* the call frame of a primitive or geometry function under test
    stage, arg, ret

codecVars == <<defaultStyle_, extractStyles_, writeStyles_, showPointNames_, sharedStyles_>>
readVars == <<pc, baseURI, todo, acc>>
callerVars == <<features, lastStyle, calls>>
frameVars == <<stage, arg, ret>>
vars == <<defaultStyle_, extractStyles_, writeStyles_, showPointNames_, sharedStyles_,
          pc, baseURI, todo, acc, features, lastStyle, calls, stage, arg, ret>>

\* JavaScript's undefined / null, where the value is otherwise a sequence of
\* records (numbers, features, styles): a sequence no decoder produces.
Undefined == <<[undefined |-> TRUE]>>

(***************************************************************************)
(* Characters and decimal numbers                                          *)
(***************************************************************************)
DigitChars == <<"0", "1", "2", "3", "4", "5", "6", "7", "8", "9">>

HexChars == <<"0", "1", "2", "3", "4", "5", "6", "7", "8", "9",
              "a", "b", "c", "d", "e", "f">>

UpperHexChars == <<"0", "1", "2", "3", "4", "5", "6", "7", "8", "9",
                   "A", "B", "C", "D", "E", "F">>

Range(s) == {s[i] : i \in DOMAIN s}

IsDigit(c) == c \in Range(DigitChars)

DigitVal(c) == (CHOOSE i \in 1..10 : DigitChars[i] = c) - 1

IsHexChar(c) == c \in Range(HexChars) \cup Range(UpperHexChars)

HexVal(c) ==
    IF c \in Range(HexChars)
    THEN (CHOOSE i \in 1..16 : HexChars[i] = c) - 1
    ELSE (CHOOSE i \in 1..16 : UpperHexChars[i] = c) - 1

\* The regular expressions' \s, as far as the inputs here hold it.
IsSpace(c) == c \in {" ", "\t", "\n"}

Abs(n) == IF n < 0 THEN 0 - n ELSE n

RECURSIVE Pow10(_)
Pow10(n) == IF n <= 0 THEN 1 ELSE 10 * Pow10(n - 1)

RECURSIVE Zeros(_)
Zeros(n) == IF n <= 0 THEN <<>> ELSE <<"0">> \o Zeros(n - 1)

RECURSIVE NatToDigits(_)
NatToDigits(n) ==
    IF n < 10 THEN <<DigitChars[n + 1]>>
    ELSE NatToDigits(n \div 10) \o <<DigitChars[(n % 10) + 1]>>

RECURSIVE NatToHex(_)
NatToHex(n) ==
    IF n < 16 THEN <<HexChars[n + 1]>>
    ELSE NatToHex(n \div 16) \o <<HexChars[(n % 16) + 1]>>

RECURSIVE DigitsToNat(_)
DigitsToNat(s) ==
    IF s = <<>> THEN 0
    ELSE 10 * DigitsToNat(SubSeq(s, 1, Len(s) - 1)) + DigitVal(s[Len(s)])

\* The normalised decimal of m * 10^e.
RECURSIVE Norm(_, _)
Norm(m, e) ==
    IF m = 0 THEN [m |-> 0, e |-> 0]
    ELSE IF Abs(m) % 10 = 0 THEN Norm(IF m < 0 THEN 0 - (Abs(m) \div 10) ELSE m \div 10, e + 1)
    ELSE [m |-> m, e |-> e]

Num(n) == Norm(n, 0)

\* The number of leading characters of s that satisfy the digit test.
RECURSIVE DigitRun(_, _)
DigitRun(s, i) ==
    IF i <= Len(s) /\ IsDigit(s[i]) THEN 1 + DigitRun(s, i + 1) ELSE 0

RECURSIVE SpaceRun(_, _)
SpaceRun(s, i) ==
    IF i <= Len(s) /\ IsSpace(s[i]) THEN 1 + SpaceRun(s, i + 1) ELSE 0

\* Number.prototype.toString (radix 10) of a finite number with the decimal
\* digits digs, the decimal point after the n-th of them: plain digits when
\* the point lies within 21 digits, a leading "0." down to 1e-6, and exponent
\* notation outside of that.
DecimalString(digs, n) ==
    LET k == Len(digs)
    IN  IF k <= n /\ n <= 21 THEN digs \o Zeros(n - k)
        ELSE IF 0 < n /\ n <= 21 THEN SubSeq(digs, 1, n) \o <<".">> \o SubSeq(digs, n + 1, k)
        ELSE IF -6 < n /\ n <= 0 THEN <<"0", ".">> \o Zeros(0 - n) \o digs
        ELSE (IF k = 1 THEN digs ELSE <<digs[1], ".">> \o SubSeq(digs, 2, k))
             \o <<"e", IF n - 1 < 0 THEN "-" ELSE "+">> \o NatToDigits(Abs(n - 1))

NumberToString(d) ==
    IF d.m = 0 THEN <<"0">>
    ELSE (IF d.m < 0 THEN <<"-">> ELSE <<>>)
         \o DecimalString(NatToDigits(Abs(d.m)), Len(NatToDigits(Abs(d.m))) + d.e)

NaN == "NaN"

\* the index after an optional sign at s[i]
SkipSign(s, i) == IF i <= Len(s) /\ s[i] \in {"+", "-"} THEN i + 1 ELSE i

\* the integer that the digits from s[from] on denote, negative after a "-"
IntegerAt(s, from) ==
    IF DigitRun(s, from) = 0 THEN NaN
    ELSE IF from > 1 /\ s[from - 1] = "-"
    THEN 0 - DigitsToNat(SubSeq(s, from, from + DigitRun(s, from) - 1))
    ELSE DigitsToNat(SubSeq(s, from, from + DigitRun(s, from) - 1))

\* parseInt(text, 10): an optional sign and the digits up to the first
\* character that is no digit; NaN when there is no digit.
parseInt(s) == IntegerAt(s, SkipSign(s, SpaceRun(s, 1) + 1))

\* \.?\d+ at s[p], p being the index after the integer digits: the index
\* after the fraction, p when there is none
FractionEnd(s, p) ==
    IF p <= Len(s) /\ s[p] = "." /\ DigitRun(s, p + 1) > 0
    THEN p + 1 + DigitRun(s, p + 1) ELSE p

\* (?:e[+\-]?\d+)? at s[p]: the index after the exponent, p when there is none
ExponentEnd(s, p) ==
    IF p <= Len(s) /\ s[p] \in {"e", "E"} /\ DigitRun(s, SkipSign(s, p + 1)) > 0
    THEN SkipSign(s, p + 1) + DigitRun(s, SkipSign(s, p + 1)) ELSE p

\* the value of the exponent at s[p]
ExponentValue(s, p) ==
    IF ExponentEnd(s, p) = p THEN 0
    ELSE IF s[p + 1] = "-"
    THEN 0 - DigitsToNat(SubSeq(s, SkipSign(s, p + 1), ExponentEnd(s, p) - 1))
    ELSE DigitsToNat(SubSeq(s, SkipSign(s, p + 1), ExponentEnd(s, p) - 1))

\* the number whose integer digits are s[from..p-1] and whose mantissa ends
\* before s[q]
FloatAt(s, from, p, q) ==
    IF q = from THEN NaN
    ELSE Norm((IF from > 1 /\ s[from - 1] = "-" THEN -1 ELSE 1)
                * DigitsToNat(SubSeq(s, from, p - 1) \o SubSeq(s, p + 1, q - 1)),
              ExponentValue(s, q) - (IF q > p THEN q - p - 1 ELSE 0))

FloatFrom(s, from, p) == FloatAt(s, from, p, FractionEnd(s, p))

\* parseFloat of a text that starts with sign? digits* (. digits+)? (e sign? digits+)?
parseFloat(s) == FloatFrom(s, SkipSign(s, 1), SkipSign(s, 1) + DigitRun(s, SkipSign(s, 1)))


(***************************************************************************)
(* Colours.  A colour is <<red, green, blue, alpha>>, each a number.  An   *)
(* alpha read from a document is byte/255, kept as [byte |-> b] unless it  *)
(* is a finite decimal (a multiple of 51/255 = 0.2).                       *)
(***************************************************************************)
ByteFraction(b) == IF b % 51 = 0 THEN Norm(2 * (b \div 51), -1) ELSE [byte |-> b]

IsByteFraction(x) == "byte" \in DOMAIN x

\* opacity * 255
Times255(x) == IF IsByteFraction(x) THEN Num(x.byte) ELSE Norm(255 * x.m, x.e)

\* Number.prototype.toString(16) of the integer parseInt returned.
IntToHex(v) == IF v < 0 THEN <<"-">> \o NatToHex(0 - v) ELSE NatToHex(v)

\* One component of writeColorTextNode's loop: parseInt(abgr[i], 10) turns the
\* number into text and reads the leading integer of that text.
HexOfComponent(x) ==
    LET hex == IntToHex(parseInt(NumberToString(x)))
    IN  IF Len(hex) = 1 THEN <<"0">> \o hex ELSE hex

writeColorTextNode(color) ==
    LET opacity == IF Len(color) = 4 THEN color[4] ELSE Num(1)
        abgr == <<Times255(opacity), color[3], color[2], color[1]>>
    IN  HexOfComponent(abgr[1]) \o HexOfComponent(abgr[2])
        \o HexOfComponent(abgr[3]) \o HexOfComponent(abgr[4])

\* parseInt(two hex digits, 16)
HexPair(s, i) == 16 * HexVal(s[i]) + HexVal(s[i + 1])

\* /^\s*#?\s*([0-9A-Fa-f]{8})\s*$/ : where the eight digits start, 0 if no match
ColorMatch(s) ==
    LET a == SpaceRun(s, 1) + 1
        b == IF a <= Len(s) /\ s[a] = "#" THEN a + 1 ELSE a
        c == b + SpaceRun(s, b)
    IN  IF /\ c + 7 <= Len(s)
           /\ \A i \in c..(c + 7) : IsHexChar(s[i])
           /\ c + 8 + SpaceRun(s, c + 8) = Len(s) + 1
        THEN c ELSE 0

\* a colour reader that takes a text outside the grammar for opaque black
ColorAtOrBlack(s, c) ==
    IF c > 0
    THEN <<Num(HexPair(s, c + 6)), Num(HexPair(s, c + 4)), Num(HexPair(s, c + 2)),
           ByteFraction(HexPair(s, c))>>
    ELSE <<Num(0), Num(0), Num(0), Num(1)>>

\* the colour of the eight hex digits that start at s[c]
ColorAt(s, c) ==
    IF c > 0
    THEN <<Num(HexPair(s, c + 6)), Num(HexPair(s, c + 4)), Num(HexPair(s, c + 2)),
           ByteFraction(HexPair(s, c))>>
    ELSE Undefined

readColor(s) == ColorAt(s, ColorMatch(s))

(***************************************************************************)
(* The colour functions under test: a colour is written, and the text is  *)
(* read back.                                                              *)
(***************************************************************************)
MaxMant == 12
MaxAlphaExp == 9

\* alpha in [0, 1]: m * 10^-e
Alphas ==
    {Norm(p[1], 0 - p[2]) :
        p \in {q \in (0..MaxMant) \X (0..MaxAlphaExp) :
                    q[1] <= 1 \/ Len(NatToDigits(q[1])) <= q[2]}}

GreenBlueSamples == {<<0, 255>>, <<16, 15>>, <<171, 205>>}

ColorInputs ==
    {<<Num(r), Num(gb[1]), Num(gb[2]), a>> :
        r \in 0..255, gb \in GreenBlueSamples, a \in Alphas}


\* The variables of the codec instance and its caller, while a primitive or
\* geometry function is looked at on its own.
CodecIdle ==
    /\ defaultStyle_ = <<>> /\ extractStyles_ = TRUE /\ writeStyles_ = TRUE
    /\ showPointNames_ = TRUE /\ sharedStyles_ = <<>>
    /\ pc = "idle" /\ baseURI = <<>> /\ todo = <<>> /\ acc = <<>>
    /\ features = <<>> /\ lastStyle = <<>> /\ calls = <<>>

CodecUnchanged == UNCHANGED <<codecVars, readVars, callerVars>>

InitColor ==
    /\ CodecIdle
    /\ stage = "color" /\ arg \in ColorInputs /\ ret = <<>>

\* writeColorTextNode(node, color): the text node appended to the colour element
WriteColor ==
    /\ stage = "color"
    /\ stage' = "colorWritten"
    /\ ret' = [text |-> writeColorTextNode(arg)]
    /\ UNCHANGED arg /\ CodecUnchanged

\* readColor(node) on the element just written
ReadColor ==
    /\ stage = "colorWritten"
    /\ stage' = "colorRead"
    /\ ret' = [text |-> ret.text, color |-> readColor(ret.text)]
    /\ UNCHANGED arg /\ CodecUnchanged

NextColor == WriteColor \/ ReadColor

SpecColor == InitColor /\ [][NextColor]_vars

\* The byte b with out = b/255, for an alpha that readColor returned.
AlphaByte(out) ==
    IF IsByteFraction(out) THEN out.byte
    ELSE Times255(out).m * Pow10(Times255(out).e)

\* |a - b/255| <= 1/255 for a decimal a in [0, 1], that is |255 a - b| <= 1
WithinOneByte(a, b) ==
    LET n == 255 * a.m
    IN  IF Len(NatToDigits(n)) <= 0 - a.e THEN b <= 1
        ELSE Abs(n - b * Pow10(0 - a.e)) <= Pow10(0 - a.e)

\* C8: Color law.  Reading the text the colour writer wrote for a colour with
\* integer red, green and blue in 0..255 and alpha in [0,1] returns the same
\* red, green and blue and an alpha at most 1/255 away from the original.
ColorLaw ==
    stage = "colorRead" =>
        /\ ret.color # Undefined
        /\ ret.color[1] = arg[1] /\ ret.color[2] = arg[2] /\ ret.color[3] = arg[3]
        /\ WithinOneByte(arg[4], AlphaByte(ret.color[4]))

\* The colour law on the alphas that Number.prototype.toString prints without
\* an exponent (255 * alpha >= 1e-6, or alpha = 0).
ColorLawPlainAlpha ==
    (stage = "colorRead" /\ (arg[4].m = 0 \/ Len(NatToDigits(255 * arg[4].m)) + arg[4].e > -6)) =>
        /\ ret.color # Undefined
        /\ ret.color[1] = arg[1] /\ ret.color[2] = arg[2] /\ ret.color[3] = arg[3]
        /\ WithinOneByte(arg[4], AlphaByte(ret.color[4]))


(***************************************************************************)
(* Coordinate tuples                                                       *)
(***************************************************************************)
\* [+\-]?\d*\.?\d+(?:e[+\-]?\d+)? matched greedily at s[i]: the index after
\* the match, 0 if there is none.  \d* gives a digit back to \d+ when no
\* fraction follows, and the exponent is taken only with a digit in it.
MantissaEnd(s, from) == FractionEnd(s, from + DigitRun(s, from))

NumEnd(s, i) ==
    IF MantissaEnd(s, SkipSign(s, i)) > SkipSign(s, i)
    THEN ExponentEnd(s, MantissaEnd(s, SkipSign(s, i)))
    ELSE 0

\* \s*,\s* at s[i]: the index after it, 0 if there is no comma
CommaEnd(s, i) ==
    IF i + SpaceRun(s, i) <= Len(s) /\ s[i + SpaceRun(s, i)] = ","
    THEN i + SpaceRun(s, i) + 1 + SpaceRun(s, i + SpaceRun(s, i) + 1)
    ELSE 0

\* The groups of one match of the tuple pattern of readFlatCoordinates, the
\* first number starting at s[from]: <<start, end>> of each of up to k numbers
\* with commas between them.
RECURSIVE Groups(_, _, _)
Groups(s, from, k) ==
    IF NumEnd(s, from) = 0 THEN <<>>
    ELSE <<<<from, NumEnd(s, from)>>>>
         \o (IF k > 1 /\ CommaEnd(s, NumEnd(s, from)) > 0
             THEN Groups(s, CommaEnd(s, NumEnd(s, from)), k - 1)
             ELSE <<>>)

\* one match at s[i], which stands for the start of the text that is left:
\* no match unless there are two numbers
TupleMatch(s, i) == Groups(s, i + SpaceRun(s, i), 3)

GroupValue(s, group) == parseFloat(SubSeq(s, group[1], group[2] - 1))

\* flatCoordinates.push(x, y, z) before what the rest of the loop gives
PushFirst(xyz, rest) == IF rest = Undefined THEN Undefined ELSE xyz \o rest

\* the while loop of readFlatCoordinates from s[i] on, and its final test;
\* m is the match at s[i]
RECURSIVE ReadTuples(_, _), ReadMatch(_, _, _)
ReadMatch(s, i, m) ==
    IF Len(m) < 2
    THEN (IF i > Len(s) THEN <<>> ELSE Undefined)
    ELSE PushFirst(<<GroupValue(s, m[1]), GroupValue(s, m[2]),
                     IF Len(m) = 3 THEN GroupValue(s, m[3]) ELSE Num(0)>>,
                   ReadTuples(s, m[Len(m)][2] + SpaceRun(s, m[Len(m)][2])))

ReadTuples(s, i) == ReadMatch(s, i, TupleMatch(s, i))

\* a mutant: a tuple without z contributes two numbers
RECURSIVE ReadTuplesNoZ(_, _), ReadMatchNoZ(_, _, _)
ReadMatchNoZ(s, i, m) ==
    IF Len(m) < 2
    THEN (IF i > Len(s) THEN <<>> ELSE Undefined)
    ELSE PushFirst([j \in 1..Len(m) |-> GroupValue(s, m[j])],
                   ReadTuplesNoZ(s, m[Len(m)][2] + SpaceRun(s, m[Len(m)][2])))

ReadTuplesNoZ(s, i) == ReadMatchNoZ(s, i, TupleMatch(s, i))

readFlatCoordinatesNoZ(s) == ReadTuplesNoZ(s, 1)

readFlatCoordinates(s) == ReadTuples(s, 1)

\* writeCoordinatesTextNode: dimension numbers of every stride, joined by
\* commas, the tuples joined by one space
Dimension(layout) == IF layout \in {"XY", "XYM"} THEN 2 ELSE 3

RECURSIVE JoinNumbers(_, _, _)
JoinNumbers(coordinates, i, dimension) ==
    IF dimension <= 1 THEN NumberToString(coordinates[i])
    ELSE JoinNumbers(coordinates, i, dimension - 1) \o <<",">>
         \o NumberToString(coordinates[i + dimension - 1])

RECURSIVE WriteTuplesFrom(_, _, _, _)
WriteTuplesFrom(coordinates, i, layout, stride) ==
    IF i > Len(coordinates) THEN <<>>
    ELSE <<" ">> \o JoinNumbers(coordinates, i, Dimension(layout))
         \o WriteTuplesFrom(coordinates, i + stride, layout, stride)

writeCoordinatesTextNode(coordinates, layout, stride) ==
    IF Len(coordinates) > 0
    THEN JoinNumbers(coordinates, 1, Dimension(layout))
         \o WriteTuplesFrom(coordinates, 1 + stride, layout, stride)
    ELSE <<>>


(***************************************************************************)
(* The coordinate reader under test.  An input is either a text composed   *)
(* from a list of tuples of number tokens with whitespace put around the   *)
(* commas and between the tuples, or any text over a small alphabet.       *)
(***************************************************************************)
MaxTuples == 2
MaxTextLen == 4

\* number tokens and the numbers they denote
NumTokens ==
    << [text |-> <<"1">>, value |-> Num(1)],
       [text |-> <<"2", ".", "0">>, value |-> Num(2)],
       [text |-> <<"-", "3">>, value |-> Num(-3)],
       [text |-> <<".", "5">>, value |-> Norm(5, -1)],
       [text |-> <<"+", "4", "e", "2">>, value |-> Num(400)],
       [text |-> <<"6", "E", "-", "1">>, value |-> Norm(6, -1)] >>

Pads == {<<>>, <<" ">>, <<" ", "\n">>}
Separators == {<<" ">>, <<"\n", " ">>}

\* the k-th token, counting round the list
Token(k) == NumTokens[((k - 1) % Len(NumTokens)) + 1]

\* The tuples of an input: shapes[j] components each, the tokens taken in turn
\* from the k-th on.
RECURSIVE TuplesOf(_, _)
TuplesOf(shapes, k) ==
    IF shapes = <<>> THEN <<>>
    ELSE <<[c \in 1..Head(shapes) |-> Token(k + c - 1)]>>
         \o TuplesOf(Tail(shapes), k + Head(shapes))

RECURSIVE TupleText(_, _, _)
TupleText(t, before, after) ==
    IF Len(t) = 1 THEN t[1].text
    ELSE TupleText(SubSeq(t, 1, Len(t) - 1), before, after)
         \o before \o <<",">> \o after \o t[Len(t)].text

RECURSIVE TuplesText(_, _, _, _)
TuplesText(ts, before, after, sep) ==
    IF Len(ts) = 1 THEN TupleText(ts[1], before, after)
    ELSE TupleText(ts[1], before, after) \o sep \o TuplesText(Tail(ts), before, after, sep)

\* what the tuples denote: x, y, z of each, z = 0 where the tuple has none
RECURSIVE TuplesFlat(_)
TuplesFlat(ts) ==
    IF ts = <<>> THEN <<>>
    ELSE <<ts[1][1].value, ts[1][2].value,
           IF Len(ts[1]) = 3 THEN ts[1][3].value ELSE Num(0)>> \o TuplesFlat(Tail(ts))

Shapes == UNION {[1..n -> {2, 3}] : n \in 1..MaxTuples}

ComposedInputs ==
    {[kind |-> "tuples", tuples |-> TuplesOf(sh, k),
      text |-> lead \o TuplesText(TuplesOf(sh, k), before, after, sep) \o lead] :
        sh \in Shapes, k \in 1..Len(NumTokens),
        before \in Pads, after \in Pads, sep \in Separators, lead \in {<<>>, <<" ">>}}

TextAlphabet == {"1", ".", ",", " ", "-", "e"}

AnyTexts == UNION {[1..n -> TextAlphabet] : n \in 0..MaxTextLen}

\* "1.0,  2.0 , 3.0  4,5,6"
SampleText ==
    <<"1", ".", "0", ",", " ", " ", "2", ".", "0", " ", ",", " ", "3", ".", "0",
      " ", " ", "4", ",", "5", ",", "6">>

CoordInputs ==
    ComposedInputs
    \cup {[kind |-> "text", tuples |-> <<>>, text |-> t] : t \in AnyTexts \cup {SampleText}}

InitCoord ==
    /\ CodecIdle
    /\ stage = "coords" /\ arg \in CoordInputs /\ ret = <<>>

\* readFlatCoordinates(node) on a coordinates element holding the text
ReadCoords ==
    /\ stage = "coords"
    /\ stage' = "coordsRead"
    /\ ret' = readFlatCoordinates(arg.text)
    /\ UNCHANGED arg /\ CodecUnchanged

NextCoord == ReadCoords

SpecCoord == InitCoord /\ [][NextCoord]_vars

\* C9: Coordinate tolerance.  Tuples with extra whitespace around the commas
\* and between the tuples are accepted; a tuple of two components gets z = 0;
\* the result holds three numbers per tuple in input order, so every result
\* has a length that is a multiple of 3; and "1.0,  2.0 , 3.0  4,5,6" yields
\* [1,2,3,4,5,6].
CoordinateTolerance ==
    stage = "coordsRead" =>
        /\ arg.kind = "tuples" =>
              /\ ret = TuplesFlat(arg.tuples)
              /\ Len(ret) = 3 * Len(arg.tuples)
        /\ ret # Undefined => Len(ret) % 3 = 0
        /\ arg.text = SampleText =>
              ret = <<Num(1), Num(2), Num(3), Num(4), Num(5), Num(6)>>

\* a text of two tuples, the first without z, with whitespace on both sides
\* of a comma, has been read
CoordinateToleranceWitness ==
    /\ stage = "coordsRead"
    /\ arg.kind = "tuples"
    /\ Len(arg.tuples) = 2 /\ Len(arg.tuples[1]) = 2
    /\ \E i \in 2..(Len(arg.text) - 1) :
          arg.text[i] = "," /\ arg.text[i - 1] = " " /\ arg.text[i + 1] = " "
    /\ Len(ret) = 6 /\ ret[3] = Num(0)


(***************************************************************************)
(* XML elements and JavaScript values.  An element is its local name, its  *)
(* id attribute, its text content and its child elements in document       *)
(* order.  An optional value (an attribute, a property that may be         *)
(* missing) is a sequence of length 0 or 1; null is a record of its own.   *)
(***************************************************************************)
None == <<>>

Some(v) == <<v>>

Null == [null |-> TRUE]

Element(tag, attributes, text, kids) ==
    [tag |-> tag, attributes |-> attributes, text |-> text, kids |-> kids]

\* the attributes the codec reads: id and name, each optional
NoAttributes == [id |-> None, name |-> None]

WithId(id) == [id |-> Some(id), name |-> None]

WithName(name) == [id |-> None, name |-> Some(name)]

\* an element holding text only, and an element holding elements only
Leaf(tag, text) == Element(tag, NoAttributes, text, <<>>)

Parent(tag, kids) == Element(tag, NoAttributes, <<>>, kids)

\* A JavaScript value held by an object with string keys: a string, a
\* boolean, an array of styles, a geometry, null or undefined, each a record.
String(text) == [string |-> text]

Boolean(b) == [boolean |-> b]

Array(elements) == [array |-> elements]

UndefinedValue == [undefined |-> TRUE]

IsArray(value) == "array" \in DOMAIN value

IsString(value) == "string" \in DOMAIN value

\* if (value): a non-empty string, an array, an object
Truthy(value) ==
    IF IsString(value) THEN value.string # <<>>
    ELSE IF "boolean" \in DOMAIN value THEN value.boolean
    ELSE value # UndefinedValue /\ value # Null

\* A JavaScript object with string keys: its properties, in the order they
\* were first set.
Has(object, key) == \E i \in DOMAIN object : object[i].key = key

IndexOf(object, key) == CHOOSE i \in DOMAIN object : object[i].key = key

Get(object, key) ==
    IF Has(object, key) THEN object[IndexOf(object, key)].value ELSE UndefinedValue

Put(object, key, value) ==
    IF Has(object, key) THEN [object EXCEPT ![IndexOf(object, key)].value = value]
    ELSE Append(object, [key |-> key, value |-> value])

Delete(object, key) == SelectSeq(object, LAMBDA property : property.key # key)

Keys(object) == {object[i].key : i \in DOMAIN object}

\* makeObjectPropertySetter on such an object
SetProperty(object, key, value) ==
    IF value # None THEN Put(object, key, value[1]) ELSE object

\* String.prototype.trim
Trim(s) ==
    LET lead == SpaceRun(s, 1)
        last == IF lead = Len(s) THEN lead
                ELSE CHOOSE j \in (lead + 1)..Len(s) :
                        /\ ~IsSpace(s[j])
                        /\ \A k \in (j + 1)..Len(s) : IsSpace(s[k])
    IN  SubSeq(s, lead + 1, last)

\* an optional value from a value that may be Undefined
Optional(value) == IF value = Undefined THEN None ELSE Some(value)

\* makeObjectPropertySetter: the property is set unless the value read is
\* undefined
makeObjectPropertySetter(object, property, value) ==
    IF value # None THEN [object EXCEPT ![property] = value] ELSE object

\* makeReplacer: the top of the stack is replaced unless the value read is
\* undefined
makeReplacer(top, value) == IF value # None THEN value[1] ELSE top

\* true when the trimmed text starts with true or 1, false when it does not
\* and ends with false or 0
BooleanOf(t) ==
    IF \/ (Len(t) >= 1 /\ t[1] = "1")
       \/ (Len(t) >= 4 /\ SubSeq(t, 1, 4) = <<"t", "r", "u", "e">>)
    THEN Some(TRUE)
    ELSE IF \/ (Len(t) >= 1 /\ t[Len(t)] = "0")
            \/ (Len(t) >= 5 /\ SubSeq(t, Len(t) - 4, Len(t)) = <<"f", "a", "l", "s", "e">>)
    THEN Some(FALSE)
    ELSE None

\* readBoolean: /^\s*(true|1)|(false|0)\s*$/ on the text; an optional boolean
readBoolean(s) == BooleanOf(Trim(s))

\* the number s[from..to-1] when nothing but whitespace follows it
DecimalAt(s, from, to) ==
    IF to > 0 /\ to + SpaceRun(s, to) = Len(s) + 1
    THEN Some(parseFloat(SubSeq(s, from, to - 1)))
    ELSE None

\* readDecimal: /^\s*([+\-]?\d*\.?\d+(?:e[+\-]?\d+)?)\s*$/i on the text; an
\* optional number
readDecimal(s) == DecimalAt(s, SpaceRun(s, 1) + 1, NumEnd(s, SpaceRun(s, 1) + 1))

(***************************************************************************)
(* URIs.  A URI is a text in pieces: "#", a name, the directory and the    *)
(* file of an absolute URL.                                                *)
(***************************************************************************)
DocumentBase == <<"http://host/dir/", "doc.kml">>

IsAbsolute(s) == Len(s) > 0 /\ s[1] = DocumentBase[1]

\* new URL(s, baseURI).href for a base <<directory, file>>
ResolveURL(s, base) ==
    IF s = <<>> THEN base
    ELSE IF IsAbsolute(s) THEN s
    ELSE IF s[1] = "#" THEN base \o s
    ELSE <<base[1]>> \o s

\* readURI(node) for a node holding the text, in a document with the base
\* URI (none: neither the node nor the window has one)
readURI(s, base) ==
    IF base # None THEN ResolveURL(Trim(s), base[1]) ELSE Trim(s)

\* the key readSharedStyle_ and readSharedStyleMap_ store an id under
StyleUri(id, base) ==
    IF base # None THEN ResolveURL(<<"#">> \o id, base[1]) ELSE <<"#">> \o id


(***************************************************************************)
(* Styles.  A style is [fill, image, stroke, text, zIndex]; a part that is *)
(* null is Null.  The defaults are those of createStyleDefaults.           *)
(***************************************************************************)
DEFAULT_COLOR == <<Num(255), Num(255), Num(255), Num(1)>>

DEFAULT_FILL_STYLE == [color |-> DEFAULT_COLOR]

DEFAULT_IMAGE_STYLE_SIZE == <<64, 64>>

DEFAULT_IMAGE_STYLE ==
    [src |-> "https://maps.google.com/mapfiles/kml/pushpin/ylw-pushpin.png",
     anchor |-> <<20, 2>>, scale |-> Norm(5, -1), size |-> Some(DEFAULT_IMAGE_STYLE_SIZE)]

DEFAULT_STROKE_STYLE == [color |-> DEFAULT_COLOR, width |-> Some(Num(1))]

DEFAULT_TEXT_STROKE_STYLE ==
    [color |-> <<Num(51), Num(51), Num(51), Num(1)>>, width |-> Some(Num(2))]

DEFAULT_TEXT_STYLE ==
    [font |-> Some("bold 16px Helvetica"), fill |-> DEFAULT_FILL_STYLE,
     stroke |-> DEFAULT_TEXT_STROKE_STYLE, scale |-> Some(Norm(8, -1)),
     text |-> None, offsetX |-> Num(0), offsetY |-> Num(0), textAlign |-> None]

DEFAULT_STYLE ==
    [fill |-> DEFAULT_FILL_STYLE, image |-> DEFAULT_IMAGE_STYLE,
     text |-> DEFAULT_TEXT_STYLE, stroke |-> DEFAULT_STROKE_STYLE, zIndex |-> Some(0)]

DEFAULT_STYLE_ARRAY == <<DEFAULT_STYLE>>

\* parseNode(LINE_STYLE_PARSERS, node): the children from the i-th on
RECURSIVE ParseLineStyle(_, _, _)
ParseLineStyle(kids, i, object) ==
    IF i > Len(kids) THEN object
    ELSE ParseLineStyle(kids, i + 1,
            IF kids[i].tag = "color"
            THEN makeObjectPropertySetter(object, "color", Optional(readColor(kids[i].text)))
            ELSE IF kids[i].tag = "width"
            THEN makeObjectPropertySetter(object, "width", readDecimal(kids[i].text))
            ELSE object)

\* new Stroke of what the LineStyle element gave
StrokeOf(object) ==
    [color |-> IF object.color # None THEN object.color[1] ELSE DEFAULT_COLOR,
     width |-> IF object.width # None THEN object.width ELSE Some(Num(1))]

lineStyleParser(node, styleObject) ==
    [styleObject EXCEPT !.strokeStyle =
        Some(StrokeOf(ParseLineStyle(node.kids, 1, [color |-> None, width |-> None])))]

\* parseNode(POLY_STYLE_PARSERS, node): the children from the i-th on
RECURSIVE ParsePolyStyle(_, _, _)
ParsePolyStyle(kids, i, object) ==
    IF i > Len(kids) THEN object
    ELSE ParsePolyStyle(kids, i + 1,
            IF kids[i].tag = "color"
            THEN makeObjectPropertySetter(object, "color", Optional(readColor(kids[i].text)))
            ELSE IF kids[i].tag \in {"fill", "outline"}
            THEN makeObjectPropertySetter(object, kids[i].tag, readBoolean(kids[i].text))
            ELSE object)

\* the style object after a PolyStyle element that gave object
PolyStyleInto(styleObject, object) ==
    [styleObject EXCEPT
        !.fillStyle = Some([color |-> IF object.color # None THEN object.color[1]
                                      ELSE DEFAULT_COLOR]),
        !.fill = IF object.fill # None THEN object.fill ELSE @,
        !.outline = IF object.outline # None THEN object.outline ELSE @]

polyStyleParser(node, styleObject) ==
    PolyStyleInto(styleObject,
        ParsePolyStyle(node.kids, 1, [color |-> None, fill |-> None, outline |-> None]))

\* parseNode(LABEL_STYLE_PARSERS, node): the children from the i-th on
RECURSIVE ParseLabelStyle(_, _, _)
ParseLabelStyle(kids, i, object) ==
    IF i > Len(kids) THEN object
    ELSE ParseLabelStyle(kids, i + 1,
            IF kids[i].tag = "color"
            THEN makeObjectPropertySetter(object, "color", Optional(readColor(kids[i].text)))
            ELSE IF kids[i].tag = "scale"
            THEN makeObjectPropertySetter(object, "scale", readDecimal(kids[i].text))
            ELSE object)

\* new Text of what the LabelStyle element gave: a fill and a scale, the rest
\* as the constructor of Text leaves it
TextOf(object) ==
    [font |-> None,
     fill |-> [color |-> IF object.color # None THEN object.color[1] ELSE DEFAULT_COLOR],
     stroke |-> Null, scale |-> object.scale,
     text |-> None, offsetX |-> Num(0), offsetY |-> Num(0), textAlign |-> None]

labelStyleParser(node, styleObject) ==
    [styleObject EXCEPT !.textStyle =
        Some(TextOf(ParseLabelStyle(node.kids, 1, [color |-> None, scale |-> None])))]

\* the attributes of a hotSpot element
HotSpotAttributes(x, y, xunits, yunits) == [x |-> x, y |-> y, xunits |-> xunits, yunits |-> yunits]

\* parseFloat of an attribute: NaN when the attribute is missing or its
\* trimmed value does not start with a number
FloatOfAttribute(attribute) ==
    IF attribute = None THEN [nan |-> TRUE]
    ELSE IF MantissaEnd(Trim(attribute[1]), SkipSign(Trim(attribute[1]), 1))
                > SkipSign(Trim(attribute[1]), 1)
    THEN [number |-> parseFloat(Trim(attribute[1]))]
    ELSE [nan |-> TRUE]

\* ICON_ANCHOR_UNITS_MAP[units]: undefined for a key the map does not have
ICON_ANCHOR_UNITS_MAP(units) ==
    IF units = Some("fraction") THEN Some("fraction")
    ELSE IF units = Some("pixels") \/ units = Some("insetPixels") THEN Some("pixels")
    ELSE None

\* the origin readVec2 derives with the two units taken for each other
OriginOfSwapped(xunits, yunits) ==
    IF yunits # Some("insetPixels")
    THEN (IF xunits # Some("insetPixels") THEN "bottom-left" ELSE "top-left")
    ELSE (IF xunits # Some("insetPixels") THEN "bottom-right" ELSE "top-right")

\* the origin readVec2 derives from the units
OriginOf(xunits, yunits) ==
    IF xunits # Some("insetPixels")
    THEN (IF yunits # Some("insetPixels") THEN "bottom-left" ELSE "top-left")
    ELSE (IF yunits # Some("insetPixels") THEN "bottom-right" ELSE "top-right")

\* readVec2(node) on the attributes of the node
readVec2(attributes) ==
    [x |-> FloatOfAttribute(attributes.x),
     xunits |-> ICON_ANCHOR_UNITS_MAP(attributes.xunits),
     y |-> FloatOfAttribute(attributes.y),
     yunits |-> ICON_ANCHOR_UNITS_MAP(attributes.yunits),
     origin |-> OriginOf(attributes.xunits, attributes.yunits)]

\* pushParseAndPop({}, ICON_PARSERS, node): the children from the i-th on;
\* the base URI of the node is that of the document
RECURSIVE ParseIcon(_, _, _)
ParseIcon(kids, i, iconObject) ==
    IF i > Len(kids) THEN iconObject
    ELSE ParseIcon(kids, i + 1,
            IF kids[i].tag = "href"
            THEN [iconObject EXCEPT !.href = Some(readURI(kids[i].text, baseURI))]
            ELSE IF kids[i].tag \in {"gx:x", "gx:y", "gx:w", "gx:h"}
            THEN makeObjectPropertySetter(iconObject,
                    IF kids[i].tag = "gx:x" THEN "x" ELSE IF kids[i].tag = "gx:y" THEN "y"
                    ELSE IF kids[i].tag = "gx:w" THEN "w" ELSE "h",
                    readDecimal(kids[i].text))
            ELSE iconObject)

EmptyIconObject == [href |-> None, x |-> None, y |-> None, w |-> None, h |-> None]

readIcon(node) == ParseIcon(node.kids, 1, EmptyIconObject)

\* pushParseAndPop({}, ICON_STYLE_PARSERS, node): the children from the i-th on
RECURSIVE ParseIconStyle(_, _, _)
ParseIconStyle(kids, i, object) ==
    IF i > Len(kids) THEN object
    ELSE ParseIconStyle(kids, i + 1,
            IF kids[i].tag = "Icon" THEN [object EXCEPT !.Icon = Some(readIcon(kids[i]))]
            ELSE IF kids[i].tag = "heading"
            THEN makeObjectPropertySetter(object, "heading", readDecimal(kids[i].text))
            ELSE IF kids[i].tag = "hotSpot"
            THEN [object EXCEPT !.hotSpot = Some(readVec2(kids[i].attributes))]
            ELSE IF kids[i].tag = "scale"
            THEN makeObjectPropertySetter(object, "scale", readDecimal(kids[i].text))
            ELSE object)

DEFAULT_IMAGE_STYLE_SRC == <<"https://maps.google.com/mapfiles/kml/pushpin/ylw-pushpin.png">>

DEFAULT_IMAGE_STYLE_ANCHOR == <<[number |-> Num(20)], [number |-> Num(2)]>>

DEFAULT_NO_IMAGE_STYLE == [noImage |-> TRUE]

\* the icon is drawn also for an Icon element without any property
DrawIconAlways(object) == TRUE

\* drawIcon: there is no Icon element, or the Icon element gave a property
DrawIcon(object) == object.Icon = None \/ object.Icon[1] # EmptyIconObject

\* src: the href when it is not empty, else the default source when the icon
\* is drawn
SrcOf(object) ==
    IF object.Icon # None /\ object.Icon[1].href # None /\ object.Icon[1].href[1] # <<>>
    THEN object.Icon[1].href
    ELSE IF DrawIcon(object) THEN Some(DEFAULT_IMAGE_STYLE_SRC)
    ELSE None

\* /^http:\/\/maps\.(?:google|gstatic)\.com\//.test(src), the text of an URL
\* being in pieces
IsGoogleMapsSrc(src) ==
    /\ src # None /\ src[1] # <<>>
    /\ src[1][1] \in {"http://maps.google.com/", "http://maps.gstatic.com/"}

\* new Icon of what the IconStyle element gave; rotation is the heading, in
\* degrees, that toRadians is applied to; an option left undefined is None,
\* but for the scale, which the constructor sets to 1
IconOf(object) ==
    [anchor |-> IF object.hotSpot # None
                THEN Some(<<object.hotSpot[1].x, object.hotSpot[1].y>>)
                ELSE IF SrcOf(object) = Some(DEFAULT_IMAGE_STYLE_SRC)
                THEN Some(DEFAULT_IMAGE_STYLE_ANCHOR)
                ELSE IF IsGoogleMapsSrc(SrcOf(object))
                THEN Some(<<[number |-> Norm(5, -1)], [number |-> Num(0)]>>)
                ELSE None,
     anchorOrigin |-> IF object.hotSpot # None THEN object.hotSpot[1].origin
                      ELSE "bottom-left",
     anchorXUnits |-> IF object.hotSpot # None THEN object.hotSpot[1].xunits
                      ELSE IF SrcOf(object) = Some(DEFAULT_IMAGE_STYLE_SRC) THEN Some("pixels")
                      ELSE IF IsGoogleMapsSrc(SrcOf(object)) THEN Some("fraction")
                      ELSE None,
     anchorYUnits |-> IF object.hotSpot # None THEN object.hotSpot[1].yunits
                      ELSE IF SrcOf(object) = Some(DEFAULT_IMAGE_STYLE_SRC) THEN Some("pixels")
                      ELSE IF IsGoogleMapsSrc(SrcOf(object)) THEN Some("fraction")
                      ELSE None,
     offset |-> IF object.Icon # None /\ object.Icon[1].x # None /\ object.Icon[1].y # None
                THEN Some(<<object.Icon[1].x[1], object.Icon[1].y[1]>>) ELSE None,
     rotation |-> object.heading,
     scale |-> IF object.scale # None THEN object.scale[1]
               ELSE IF SrcOf(object) = Some(DEFAULT_IMAGE_STYLE_SRC) THEN Norm(5, -1)
               ELSE Num(1),
     size |-> IF SrcOf(object) = Some(DEFAULT_IMAGE_STYLE_SRC)
              THEN Some(DEFAULT_IMAGE_STYLE_SIZE)
              ELSE IF object.Icon # None /\ object.Icon[1].w # None /\ object.Icon[1].h # None
              THEN Some(<<object.Icon[1].w[1], object.Icon[1].h[1]>>) ELSE None,
     src |-> SrcOf(object)]

\* the image style iconStyleParser sets: an icon, or the mark of no image
ImageStyleOf(object) ==
    IF DrawIcon(object) THEN IconOf(object) ELSE DEFAULT_NO_IMAGE_STYLE

iconStyleParser(node, styleObject) ==
    [styleObject EXCEPT !.imageStyle =
        Some(ImageStyleOf(ParseIconStyle(node.kids, 1,
                [Icon |-> None, heading |-> None, hotSpot |-> None, scale |-> None])))]

\* parseNode(STYLE_PARSERS, node): the children from the i-th on
RECURSIVE ParseStyle(_, _, _)
ParseStyle(kids, i, styleObject) ==
    IF i > Len(kids) THEN styleObject
    ELSE ParseStyle(kids, i + 1,
            IF kids[i].tag = "IconStyle" THEN iconStyleParser(kids[i], styleObject)
            ELSE IF kids[i].tag = "LabelStyle" THEN labelStyleParser(kids[i], styleObject)
            ELSE IF kids[i].tag = "LineStyle" THEN lineStyleParser(kids[i], styleObject)
            ELSE IF kids[i].tag = "PolyStyle" THEN polyStyleParser(kids[i], styleObject)
            ELSE styleObject)

\* the style with a fill and a stroke only when the flag is set and true
StyleOfFlagged(styleObject) ==
    [fill |-> IF styleObject.fill # Some(TRUE) THEN Null
              ELSE IF styleObject.fillStyle # None THEN styleObject.fillStyle[1]
              ELSE DEFAULT_FILL_STYLE,
     image |-> IF styleObject.imageStyle = None THEN DEFAULT_IMAGE_STYLE
               ELSE IF styleObject.imageStyle[1] = DEFAULT_NO_IMAGE_STYLE THEN Null
               ELSE styleObject.imageStyle[1],
     stroke |-> IF styleObject.outline # Some(TRUE) THEN Null
                ELSE IF styleObject.strokeStyle # None THEN styleObject.strokeStyle[1]
                ELSE DEFAULT_STROKE_STYLE,
     text |-> IF styleObject.textStyle # None THEN styleObject.textStyle[1]
              ELSE DEFAULT_TEXT_STYLE,
     zIndex |-> None]

\* the style readStyle makes of the style object
StyleOf(styleObject) ==
    [fill |-> IF styleObject.fill # None /\ ~styleObject.fill[1] THEN Null
              ELSE IF styleObject.fillStyle # None THEN styleObject.fillStyle[1]
              ELSE DEFAULT_FILL_STYLE,
     image |-> IF styleObject.imageStyle = None THEN DEFAULT_IMAGE_STYLE
               ELSE IF styleObject.imageStyle[1] = DEFAULT_NO_IMAGE_STYLE THEN Null
               ELSE styleObject.imageStyle[1],
     stroke |-> IF styleObject.outline # None /\ ~styleObject.outline[1] THEN Null
                ELSE IF styleObject.strokeStyle # None THEN styleObject.strokeStyle[1]
                ELSE DEFAULT_STROKE_STYLE,
     text |-> IF styleObject.textStyle # None THEN styleObject.textStyle[1]
              ELSE DEFAULT_TEXT_STYLE,
     zIndex |-> None]

\* readStyle(node): always an array of one style
readStyle(node) ==
    <<StyleOf(ParseStyle(node.kids, 1,
            [fillStyle |-> None, fill |-> None, imageStyle |-> None,
             textStyle |-> None, strokeStyle |-> None, outline |-> None]))>>

(***************************************************************************)
(* Style maps.  The value of a style map, and of a registry entry, is      *)
(* either an array of styles, [array |-> ...], or a URI, [string |-> ...]. *)
(***************************************************************************)
\* pushParseAndPop({}, PAIR_PARSERS, node): the children from the i-th on
RECURSIVE ParsePair(_, _, _, _)
ParsePair(kids, i, base, pairObject) ==
    IF i > Len(kids) THEN pairObject
    ELSE ParsePair(kids, i + 1, base,
            IF kids[i].tag = "Style" THEN [pairObject EXCEPT !.Style = Some(readStyle(kids[i]))]
            ELSE IF kids[i].tag = "key" THEN [pairObject EXCEPT !.key = Some(kids[i].text)]
            ELSE IF kids[i].tag = "styleUrl"
            THEN [pairObject EXCEPT !.styleUrl = Some(readURI(kids[i].text, base))]
            ELSE pairObject)

\* the value of the style map with the key of the pair left aside
PairIntoAnyKey(styleMapValue, pairObject) ==
    IF pairObject.Style # None THEN Some([array |-> pairObject.Style[1]])
    ELSE IF pairObject.styleUrl # None /\ pairObject.styleUrl[1] # <<>>
    THEN Some([string |-> pairObject.styleUrl[1]])
    ELSE styleMapValue

\* the value of the style map after a Pair that gave pairObject
PairInto(styleMapValue, pairObject) ==
    IF pairObject.key = Some(<<"normal">>)
    THEN IF pairObject.Style # None THEN Some([array |-> pairObject.Style[1]])
         ELSE IF pairObject.styleUrl # None /\ pairObject.styleUrl[1] # <<>>
         THEN Some([string |-> pairObject.styleUrl[1]])
         ELSE styleMapValue
    ELSE styleMapValue

\* pairDataParser(node, objectStack), the top of the stack being the value of
\* the style map so far
pairDataParser(node, base, styleMapValue) ==
    PairInto(styleMapValue,
        ParsePair(node.kids, 1, base, [Style |-> None, key |-> None, styleUrl |-> None]))

RECURSIVE ParseStyleMap(_, _, _, _)
ParseStyleMap(kids, i, base, styleMapValue) ==
    IF i > Len(kids) THEN styleMapValue
    ELSE ParseStyleMap(kids, i + 1, base,
            IF kids[i].tag = "Pair" THEN pairDataParser(kids[i], base, styleMapValue)
            ELSE styleMapValue)

\* readStyleMapValue(node): an optional value
readStyleMapValue(node, base) == ParseStyleMap(node.kids, 1, base, None)


(***************************************************************************)
(* Geometries.  A geometry is a record with its type, its flat coordinates *)
(* and, by type, its ring ends or its member geometries.  A reader returns *)
(* an optional geometry.                                                   *)
(***************************************************************************)
\* pushParseAndPop({}, EXTRUDE_AND_ALTITUDE_MODE_PARSERS, node)
RECURSIVE ParseExtrudeAndAltitudeMode(_, _, _)
ParseExtrudeAndAltitudeMode(kids, i, properties) ==
    IF i > Len(kids) THEN properties
    ELSE ParseExtrudeAndAltitudeMode(kids, i + 1,
            IF kids[i].tag \in {"extrude", "tessellate"}
            THEN makeObjectPropertySetter(properties, kids[i].tag, readBoolean(kids[i].text))
            ELSE IF kids[i].tag = "altitudeMode"
            THEN makeObjectPropertySetter(properties, "altitudeMode", Some(kids[i].text))
            ELSE properties)

GeometryProperties(node) ==
    ParseExtrudeAndAltitudeMode(node.kids, 1,
        [extrude |-> None, tessellate |-> None, altitudeMode |-> None])

\* pushParseAndPop(null, {coordinates: makeReplacer(readFlatCoordinates)}, node):
\* the last coordinates child that reads well replaces what is there; Undefined
\* stands for the null that is left when there is none
RECURSIVE ParseFlatCoordinates(_, _, _)
ParseFlatCoordinates(kids, i, flatCoordinates) ==
    IF i > Len(kids) THEN flatCoordinates
    ELSE ParseFlatCoordinates(kids, i + 1,
            IF kids[i].tag = "coordinates"
            THEN makeReplacer(flatCoordinates, Optional(readFlatCoordinates(kids[i].text)))
            ELSE flatCoordinates)

readFlatCoordinatesFromNode(node) == ParseFlatCoordinates(node.kids, 1, Undefined)

\* new Point / LineString and setFlatCoordinates(XYZ, flatCoordinates), unless
\* there are no coordinates
SimpleGeometry(type, flatCoordinates, properties) ==
    IF flatCoordinates # Undefined
    THEN Some([type |-> type, layout |-> "XYZ", flatCoordinates |-> flatCoordinates,
               properties |-> properties])
    ELSE None

\* new Polygon and setFlatCoordinates(XYZ, flatCoordinates, ends)
PolygonGeometry(flatCoordinates, ends, properties) ==
    [type |-> "Polygon", layout |-> "XYZ", flatCoordinates |-> flatCoordinates,
     ends |-> ends, properties |-> properties]

readPoint(node) ==
    SimpleGeometry("Point", readFlatCoordinatesFromNode(node), GeometryProperties(node))

readLineString(node) ==
    SimpleGeometry("LineString", readFlatCoordinatesFromNode(node), GeometryProperties(node))

\* a LinearRing element is read as a Polygon of one ring
RingPolygon(flatCoordinates, properties) ==
    IF flatCoordinates # Undefined
    THEN Some(PolygonGeometry(flatCoordinates, <<Len(flatCoordinates)>>, properties))
    ELSE None

readLinearRing(node) ==
    RingPolygon(readFlatCoordinatesFromNode(node), GeometryProperties(node))

\* readFlatLinearRing(node): the coordinates of a LinearRing element
readFlatLinearRing(node) == readFlatCoordinatesFromNode(node)

\* pushParseAndPop(undefined, {LinearRing: makeReplacer(readFlatLinearRing)}, node)
\* for an innerBoundaryIs or outerBoundaryIs element: null replaces as well
RECURSIVE ParseBoundaryIs(_, _, _)
ParseBoundaryIs(kids, i, flatLinearRing) ==
    IF i > Len(kids) THEN flatLinearRing
    ELSE ParseBoundaryIs(kids, i + 1,
            IF kids[i].tag = "LinearRing" THEN readFlatLinearRing(kids[i])
            ELSE flatLinearRing)

\* outerBoundaryIsParser keeping the ring of the first outer boundary
BoundaryIntoFirstOuter(flatLinearRings, tag, flatLinearRing) ==
    IF flatLinearRing = Undefined THEN flatLinearRings
    ELSE IF tag = "innerBoundaryIs" THEN Append(flatLinearRings, flatLinearRing)
    ELSE IF flatLinearRings[1] = Undefined THEN [flatLinearRings EXCEPT ![1] = flatLinearRing]
    ELSE flatLinearRings

\* innerBoundaryIsParser pushes the ring, outerBoundaryIsParser puts it first
BoundaryInto(flatLinearRings, tag, flatLinearRing) ==
    IF flatLinearRing = Undefined THEN flatLinearRings
    ELSE IF tag = "innerBoundaryIs" THEN Append(flatLinearRings, flatLinearRing)
    ELSE [flatLinearRings EXCEPT ![1] = flatLinearRing]

\* parseNode(FLAT_LINEAR_RINGS_PARSERS, node) over the children of a Polygon
\* element; flatLinearRings[1] is the outer ring, Undefined at first
RECURSIVE ParseFlatLinearRings(_, _, _)
ParseFlatLinearRings(kids, i, flatLinearRings) ==
    IF i > Len(kids) THEN flatLinearRings
    ELSE ParseFlatLinearRings(kids, i + 1,
            IF kids[i].tag \in {"innerBoundaryIs", "outerBoundaryIs"}
            THEN BoundaryInto(flatLinearRings, kids[i].tag,
                              ParseBoundaryIs(kids[i].kids, 1, Undefined))
            ELSE flatLinearRings)

\* the loop of readPolygon: the rings from the i-th on are appended
RECURSIVE ExtendRings(_, _, _, _, _)
ExtendRings(flatLinearRings, i, flatCoordinates, ends, properties) ==
    IF i > Len(flatLinearRings)
    THEN PolygonGeometry(flatCoordinates, ends, properties)
    ELSE ExtendRings(flatLinearRings, i + 1, flatCoordinates \o flatLinearRings[i],
                     Append(ends, Len(flatCoordinates) + Len(flatLinearRings[i])),
                     properties)

PolygonOf(flatLinearRings, properties) ==
    IF flatLinearRings[1] # Undefined
    THEN Some(ExtendRings(flatLinearRings, 2, flatLinearRings[1],
                          <<Len(flatLinearRings[1])>>, properties))
    ELSE None

readPolygon(node) ==
    PolygonOf(ParseFlatLinearRings(node.kids, 1, <<Undefined>>), GeometryProperties(node))

\* what assert(false, 37) throws, in the place of the geometry
AssertionError37 == [type |-> "AssertionError", code |-> 37]

IsThrown(geometry) == geometry.type = "AssertionError"

\* extend(flatCoordinates, geometry.getFlatCoordinates()) over the geometries
RECURSIVE FlatOfAll(_)
FlatOfAll(geometries) ==
    IF geometries = <<>> THEN <<>>
    ELSE geometries[1].flatCoordinates \o FlatOfAll(Tail(geometries))

\* MultiLineString.setLineStrings: the end of every line string in the
\* joined coordinates
RECURSIVE EndsOfAll(_, _)
EndsOfAll(geometries, offset) ==
    IF geometries = <<>> THEN <<>>
    ELSE <<offset + Len(geometries[1].flatCoordinates)>>
         \o EndsOfAll(Tail(geometries), offset + Len(geometries[1].flatCoordinates))

\* MultiPolygon.setPolygons: the ring ends of every polygon, moved by the
\* length of the coordinates before it
RECURSIVE EndssOfAll(_, _)
EndssOfAll(geometries, offset) ==
    IF geometries = <<>> THEN <<>>
    ELSE <<[j \in DOMAIN geometries[1].ends |-> geometries[1].ends[j] + offset]>>
         \o EndssOfAll(Tail(geometries), offset + Len(geometries[1].flatCoordinates))

\* setCommonGeometryProperties: a property of the multi-geometry is the array
\* of the members' values, set when a member has one
CommonGeometryProperties(geometries) ==
    LET extrudes == [i \in DOMAIN geometries |-> geometries[i].properties.extrude]
        tessellates == [i \in DOMAIN geometries |-> geometries[i].properties.tessellate]
        altitudeModes == [i \in DOMAIN geometries |-> geometries[i].properties.altitudeMode]
    IN  [extrude |-> IF \E i \in DOMAIN geometries : extrudes[i] # None
                     THEN Some(extrudes) ELSE None,
         tessellate |-> IF \E i \in DOMAIN geometries : tessellates[i] # None
                        THEN Some(tessellates) ELSE None,
         altitudeMode |-> IF \E i \in DOMAIN geometries :
                                altitudeModes[i] # None /\ altitudeModes[i] # Some(<<>>)
                          THEN Some(altitudeModes) ELSE None]

GeometryCollection(geometries) == [type |-> "GeometryCollection", geometries |-> geometries]

\* a mutant: the children are never merged
HomogenizeNever(geometries) == GeometryCollection(geometries)

\* the part of readMultiGeometry after the children are read
Homogenize(geometries) ==
    LET type == geometries[1].type
        homogeneous == \A i \in 2..Len(geometries) : geometries[i].type = type
    IN  IF geometries = <<>> THEN GeometryCollection(geometries)
        ELSE IF ~homogeneous THEN GeometryCollection(geometries)
        ELSE IF type = "Point"
        THEN [type |-> "MultiPoint", layout |-> geometries[1].layout,
              flatCoordinates |-> FlatOfAll(geometries),
              properties |-> CommonGeometryProperties(geometries)]
        ELSE IF type = "LineString"
        THEN [type |-> "MultiLineString", layout |-> geometries[1].layout,
              flatCoordinates |-> FlatOfAll(geometries),
              ends |-> EndsOfAll(geometries, 0),
              properties |-> CommonGeometryProperties(geometries)]
        ELSE IF type = "Polygon"
        THEN [type |-> "MultiPolygon", layout |-> geometries[1].layout,
              flatCoordinates |-> FlatOfAll(geometries),
              endss |-> EndssOfAll(geometries, 0),
              properties |-> CommonGeometryProperties(geometries)]
        ELSE IF type = "GeometryCollection" THEN GeometryCollection(geometries)
        ELSE AssertionError37

\* an assertion that failed in a child fails the whole
MultiGeometryOf(geometries) ==
    IF \E i \in DOMAIN geometries : IsThrown(geometries[i])
    THEN Some(AssertionError37)
    ELSE Some(Homogenize(geometries))

\* pushParseAndPop([], MULTI_GEOMETRY_PARSERS, node) and readMultiGeometry,
\* each in terms of the other: the geometries read from the children from the
\* i-th on, a child that reads as undefined leaving nothing
RECURSIVE ParseMultiGeometry(_, _), readMultiGeometry(_)
ParseMultiGeometry(kids, i) ==
    IF i > Len(kids) THEN <<>>
    ELSE (IF kids[i].tag = "LineString" THEN readLineString(kids[i])
          ELSE IF kids[i].tag = "LinearRing" THEN readLinearRing(kids[i])
          ELSE IF kids[i].tag = "MultiGeometry" THEN readMultiGeometry(kids[i])
          ELSE IF kids[i].tag = "Point" THEN readPoint(kids[i])
          ELSE IF kids[i].tag = "Polygon" THEN readPolygon(kids[i])
          ELSE None)
         \o ParseMultiGeometry(kids, i + 1)

readMultiGeometry(node) == MultiGeometryOf(ParseMultiGeometry(node.kids, 1))

(***************************************************************************)
(* The multi-geometry reader under test, on MultiGeometry elements of up   *)
(* to MaxChildren children.                                                *)
(***************************************************************************)
MaxChildren == 3

Coordinates(text) == Leaf("coordinates", text)

PointElement(text) == Parent("Point", <<Coordinates(text)>>)

LineStringElement(text) == Parent("LineString", <<Coordinates(text)>>)

LinearRingElement(text) == Parent("LinearRing", <<Coordinates(text)>>)

\* a Polygon element of an outer ring and inner rings, in the order given
PolygonElement(outer, inners) ==
    Parent("Polygon",
        [i \in 1..Len(inners) |->
            Parent("innerBoundaryIs", <<LinearRingElement(inners[i])>>)]
        \o <<Parent("outerBoundaryIs", <<LinearRingElement(outer)>>)>>)

MultiGeometryElement(kids) == Parent("MultiGeometry", kids)

\* "1,2", "3,4,5", "1,2 3,4", "1,2 3,4 1,2"
OnePosition == <<"1", ",", "2">>

OnePositionXYZ == <<"3", ",", "4", ",", "5">>

TwoPositions == <<"1", ",", "2", " ", "3", ",", "4">>

ClosedRing == <<"1", ",", "2", " ", "3", ",", "4", " ", "1", ",", "2">>

MultiGeometryChildren ==
    { PointElement(OnePosition), PointElement(OnePositionXYZ), PointElement(<<"x">>),
      LineStringElement(TwoPositions), LinearRingElement(ClosedRing),
      PolygonElement(ClosedRing, <<>>),
      MultiGeometryElement(<<>>), MultiGeometryElement(<<PointElement(OnePosition)>>) }

MultiGeometryInputs ==
    {MultiGeometryElement(kids) :
        kids \in UNION {[1..n -> MultiGeometryChildren] : n \in 0..MaxChildren}}

InitGeom ==
    /\ CodecIdle
    /\ stage = "multi" /\ arg \in MultiGeometryInputs /\ ret = <<>>

\* readMultiGeometry(node) on a MultiGeometry element
ReadMultiGeometry ==
    /\ stage = "multi"
    /\ stage' = "multiRead"
    /\ ret' = readMultiGeometry(arg)
    /\ UNCHANGED arg /\ CodecUnchanged

NextGeom == ReadMultiGeometry

SpecGeom == InitGeom /\ [][NextGeom]_vars

\* flat is the coordinates of the geometries one after the other
RECURSIVE HoldsInOrder(_, _)
HoldsInOrder(flat, geometries) ==
    IF geometries = <<>> THEN flat = <<>>
    ELSE LET n == Len(geometries[1].flatCoordinates)
         IN  /\ Len(flat) >= n
             /\ SubSeq(flat, 1, n) = geometries[1].flatCoordinates
             /\ HoldsInOrder(SubSeq(flat, n + 1, Len(flat)), Tail(geometries))

\* C4: Homogenization of a decoded multi-geometry.  An empty child list yields
\* an empty GeometryCollection; children that are all Point yield one
\* MultiPoint with the children's coordinates in order, all LineString a
\* MultiLineString, all Polygon a MultiPolygon; children that do not share one
\* type yield a GeometryCollection of exactly the children, in order.
Homogenization ==
    stage = "multiRead" =>
        LET children == ParseMultiGeometry(arg.kids, 1)
            n == Len(children)
            AllOf(t) == n > 0 /\ \A i \in 1..n : children[i].type = t
            g == ret[1]
        IN  /\ Len(ret) = 1
            /\ n = 0 => g = [type |-> "GeometryCollection", geometries |-> <<>>]
            /\ AllOf("Point") =>
                  g.type = "MultiPoint" /\ HoldsInOrder(g.flatCoordinates, children)
            /\ AllOf("LineString") =>
                  /\ g.type = "MultiLineString" /\ Len(g.ends) = n
                  /\ HoldsInOrder(g.flatCoordinates, children)
            /\ AllOf("Polygon") =>
                  /\ g.type = "MultiPolygon" /\ Len(g.endss) = n
                  /\ HoldsInOrder(g.flatCoordinates, children)
            /\ (\E i \in 2..n : children[i].type # children[1].type) =>
                  /\ g.type = "GeometryCollection"
                  /\ Len(g.geometries) = n
                  /\ \A i \in 1..n : g.geometries[i] = children[i]

\* three Point children have been read into one MultiPoint of three
\* positions, and elsewhere a Point and a LineString into a collection of two
HomogenizationWitnessPoints ==
    /\ stage = "multiRead"
    /\ Len(arg.kids) = 3 /\ \A i \in 1..3 : arg.kids[i].tag = "Point"
    /\ ret[1].type = "MultiPoint" /\ Len(ret[1].flatCoordinates) = 9


(***************************************************************************)
(* Shared styles and the style function of a feature.  The registry        *)
(* sharedStyles_ is an object keyed by URI whose values are arrays of      *)
(* styles or URIs.                                                         *)
(***************************************************************************)
\* what the engine throws when findStyle calls itself without end
RangeError == <<[throws |-> "RangeError"]>>

\* findStyle without the second try under "#" + styleValue
ExactKey(styleValue, sharedStyles) == styleValue

\* the key findStyle looks up for a string: the string, or "#" + the string
\* when only that is a key
RetryKey(styleValue, sharedStyles) ==
    IF ~Has(sharedStyles, styleValue) /\ Has(sharedStyles, <<"#">> \o styleValue)
    THEN <<"#">> \o styleValue
    ELSE styleValue

\* findStyle(styleValue, defaultStyle, sharedStyles); visited holds the keys
\* the calls so far went through
RECURSIVE FindStyle(_, _, _, _)
RECURSIVE FindKey(_, _, _, _)
FindStyle(styleValue, defaultStyle, sharedStyles, visited) ==
    IF IsArray(styleValue) THEN styleValue.array
    ELSE IF IsString(styleValue)
    THEN FindKey(RetryKey(styleValue.string, sharedStyles), defaultStyle,
                 sharedStyles, visited)
    ELSE defaultStyle

FindKey(key, defaultStyle, sharedStyles, visited) ==
    IF key \in visited THEN RangeError
    ELSE FindStyle(Get(sharedStyles, key), defaultStyle, sharedStyles,
                   visited \cup {key})

findStyle(styleValue, defaultStyle, sharedStyles) ==
    FindStyle(styleValue, defaultStyle, sharedStyles, {})

\* scale * size / 2
HalfScaled(scale, size) == Norm(scale.m * size * 5, scale.e - 1)

\* the size of the image: getImageSize(), or the default size when it is null
ImageSize(image) ==
    IF image.size # None THEN image.size[1] ELSE DEFAULT_IMAGE_STYLE_SIZE

\* the text style createNameStyleFunction makes of the text of the found style
NameTextStyle(foundText, name, offsetX, offsetY, textAlign) ==
    [font |-> IF foundText.font # None THEN foundText.font
              ELSE DEFAULT_TEXT_STYLE.font,
     fill |-> IF foundText.fill # Null THEN foundText.fill
              ELSE DEFAULT_TEXT_STYLE.fill,
     stroke |-> IF foundText.stroke # Null THEN foundText.stroke
                ELSE DEFAULT_TEXT_STROKE_STYLE,
     scale |-> IF foundText.scale # None THEN foundText.scale
               ELSE DEFAULT_TEXT_STYLE.scale,
     text |-> Some(name), offsetX |-> offsetX, offsetY |-> offsetY,
     textAlign |-> Some(textAlign)]

\* the text of the found style, or the default text style
FoundText(foundStyle) ==
    IF foundStyle.text # Null THEN foundStyle.text ELSE DEFAULT_TEXT_STYLE

\* createNameStyleFunction(foundStyle, name): a style of a text only, set off
\* from the image when there is one
createNameStyleFunction(foundStyle, name) ==
    [fill |-> Null, image |-> Null, stroke |-> Null, zIndex |-> None,
     text |->
        IF foundStyle.image # Null
        THEN NameTextStyle(FoundText(foundStyle), name,
                HalfScaled(foundStyle.image.scale, ImageSize(foundStyle.image)[1]),
                HalfScaled([m |-> -foundStyle.image.scale.m, e |-> foundStyle.image.scale.e],
                           ImageSize(foundStyle.image)[2]),
                "left")
        ELSE NameTextStyle(FoundText(foundStyle), name, Num(0), Num(0), "start")]

\* the function createFeatureStyleFunction returns with the style of the
\* placemark already looked up in the registry as it is when the placemark is
\* read
createFeatureStyleFunctionEager(style, styleUrl, defaultStyle, sharedStyles, showPointNames) ==
    [style |-> IF Truthy(style) THEN style
               ELSE IF Truthy(styleUrl)
               THEN Array(findStyle(styleUrl, defaultStyle, sharedStyles))
               ELSE style,
     styleUrl |-> styleUrl, defaultStyle |-> defaultStyle,
     showPointNames |-> showPointNames]

\* createFeatureStyleFunction(style, styleUrl, defaultStyle, sharedStyles,
\* showPointNames): the values the function it returns closes over.  The
\* registry is an object, closed over by reference: the function reads it as
\* it is when the function is called.
createFeatureStyleFunction(style, styleUrl, defaultStyle, sharedStyles, showPointNames) ==
    [style |-> style, styleUrl |-> styleUrl, defaultStyle |-> defaultStyle,
     showPointNames |-> showPointNames]

\* drawName of the style function: the point names are wanted, the geometry
\* when there is one is a Point, and the name is not empty
DrawName(properties, showPointNames) ==
    /\ showPointNames
    /\ (Truthy(Get(properties, <<"geometry">>))
            => Get(properties, <<"geometry">>).type = "Point")
    /\ Truthy(Get(properties, <<"name">>))

\* the style function with the style URL looked up before the style of the
\* placemark
BaseStyleUrlFirst(closure, sharedStyles) ==
    IF Truthy(closure.styleUrl)
    THEN findStyle(closure.styleUrl, closure.defaultStyle, sharedStyles)
    ELSE IF Truthy(closure.style) THEN closure.style.array
    ELSE closure.defaultStyle

\* the array the style function starts from: the style of the placemark,
\* else the style found for the style URL, else the default style
BaseStyle(closure, sharedStyles) ==
    IF Truthy(closure.style) THEN closure.style.array
    ELSE IF Truthy(closure.styleUrl)
    THEN findStyle(closure.styleUrl, closure.defaultStyle, sharedStyles)
    ELSE closure.defaultStyle

\* the name style appended when the name is drawn
WithNameStyle(baseStyle, drawName, name) ==
    IF baseStyle = RangeError THEN RangeError
    ELSE IF drawName
    THEN Append(baseStyle, createNameStyleFunction(baseStyle[1], name.string))
    ELSE baseStyle

\* the function createFeatureStyleFunction returns, called for a feature
\* with these properties while the registry holds sharedStyles
StyleFunction(closure, properties, sharedStyles) ==
    WithNameStyle(BaseStyle(closure, sharedStyles),
                  DrawName(properties, closure.showPointNames),
                  Get(properties, <<"name">>))

(***************************************************************************)
(* Placemarks.  The object of a placemark is filled by the parsers of its  *)
(* children, in document order.                                            *)
(***************************************************************************)
\* parseNode(DATA_PARSERS, node): displayName and value are set on the object
\* of the placemark
RECURSIVE ParseData(_, _, _)
ParseData(kids, i, featureObject) ==
    IF i > Len(kids) THEN featureObject
    ELSE ParseData(kids, i + 1,
            IF kids[i].tag \in {"displayName", "value"}
            THEN Put(featureObject, <<kids[i].tag>>, String(kids[i].text))
            ELSE featureObject)

\* the key a value makes when it is used as a property name
PropertyKey(value) == IF IsString(value) THEN value.string ELSE <<"undefined">>

\* the end of dataParser: the value goes under the name, or under the display
\* name when there is no name, and the property value is deleted
DataInto(featureObject, name) ==
    Delete(IF name # None
           THEN Put(featureObject, name[1], Get(featureObject, <<"value">>))
           ELSE IF Get(featureObject, <<"displayName">>) # Null
           THEN Put(featureObject, PropertyKey(Get(featureObject, <<"displayName">>)),
                    Get(featureObject, <<"value">>))
           ELSE featureObject,
           <<"value">>)

dataParser(node, featureObject) ==
    DataInto(ParseData(node.kids, 1, featureObject), node.attributes.name)

\* simpleDataParser: the text goes under the name
simpleDataParser(node, featureObject) ==
    IF node.attributes.name # None
    THEN Put(featureObject, node.attributes.name[1], String(node.text))
    ELSE featureObject

\* parseNode(SCHEMA_DATA_PARSERS, node)
RECURSIVE ParseSchemaData(_, _, _)
ParseSchemaData(kids, i, featureObject) ==
    IF i > Len(kids) THEN featureObject
    ELSE ParseSchemaData(kids, i + 1,
            IF kids[i].tag = "SimpleData" THEN simpleDataParser(kids[i], featureObject)
            ELSE featureObject)

\* extendedDataParser: parseNode(EXTENDED_DATA_PARSERS, node)
RECURSIVE ParseExtendedData(_, _, _)
ParseExtendedData(kids, i, featureObject) ==
    IF i > Len(kids) THEN featureObject
    ELSE ParseExtendedData(kids, i + 1,
            IF kids[i].tag = "Data" THEN dataParser(kids[i], featureObject)
            ELSE IF kids[i].tag = "SchemaData"
            THEN ParseSchemaData(kids[i].kids, 1, featureObject)
            ELSE featureObject)

\* the end of placemarkStyleMapParser: an array is the Style, a string the
\* styleUrl of the placemark
StyleMapInto(featureObject, styleMapValue) ==
    IF styleMapValue = None THEN featureObject
    ELSE IF IsArray(styleMapValue[1]) THEN Put(featureObject, <<"Style">>, styleMapValue[1])
    ELSE Put(featureObject, <<"styleUrl">>, styleMapValue[1])

placemarkStyleMapParser(node, base, featureObject) ==
    StyleMapInto(featureObject, readStyleMapValue(node, base))

\* what a boolean read makes as a property value
BooleanValue(value) == IF value # None THEN Some(Boolean(value[1])) ELSE None

\* the parser PLACEMARK_PARSERS has for the element, applied to the object
PlacemarkParser(node, base, featureObject) ==
    IF node.tag = "ExtendedData" THEN ParseExtendedData(node.kids, 1, featureObject)
    ELSE IF node.tag = "MultiGeometry"
    THEN SetProperty(featureObject, <<"geometry">>, readMultiGeometry(node))
    ELSE IF node.tag = "LineString"
    THEN SetProperty(featureObject, <<"geometry">>, readLineString(node))
    ELSE IF node.tag = "LinearRing"
    THEN SetProperty(featureObject, <<"geometry">>, readLinearRing(node))
    ELSE IF node.tag = "Point"
    THEN SetProperty(featureObject, <<"geometry">>, readPoint(node))
    ELSE IF node.tag = "Polygon"
    THEN SetProperty(featureObject, <<"geometry">>, readPolygon(node))
    ELSE IF node.tag = "Style"
    THEN Put(featureObject, <<"Style">>, Array(readStyle(node)))
    ELSE IF node.tag = "StyleMap" THEN placemarkStyleMapParser(node, base, featureObject)
    ELSE IF node.tag \in {"address", "description", "name", "phoneNumber"}
    THEN Put(featureObject, <<node.tag>>, String(node.text))
    ELSE IF node.tag \in {"open", "visibility"}
    THEN SetProperty(featureObject, <<node.tag>>, BooleanValue(readBoolean(node.text)))
    ELSE IF node.tag = "styleUrl"
    THEN Put(featureObject, <<"styleUrl">>, String(readURI(node.text, base)))
    ELSE featureObject

\* the parsers applied to the children in an order that is not theirs: the
\* ExtendedData children after all the others
RECURSIVE ParseReordered(_, _, _, _)
ParseReordered(kids, i, base, featureObject) ==
    IF i > Len(kids) THEN featureObject
    ELSE ParseReordered(kids, i + 1, base, PlacemarkParser(kids[i], base, featureObject))

ParsePlacemarkExtendedDataLast(kids, i, base, featureObject) ==
    ParseReordered(SelectSeq(kids, LAMBDA kid : kid.tag # "ExtendedData")
                       \o SelectSeq(kids, LAMBDA kid : kid.tag = "ExtendedData"),
                   i, base, featureObject)

\* pushParseAndPop({'geometry': null}, PLACEMARK_PARSERS, node): the children
\* from the i-th on
RECURSIVE ParsePlacemark(_, _, _, _)
ParsePlacemark(kids, i, base, featureObject) ==
    IF i > Len(kids) THEN featureObject
    ELSE ParsePlacemark(kids, i + 1, base, PlacemarkParser(kids[i], base, featureObject))

\* the feature readPlacemark_ makes of the object: its id, its properties
\* (the geometry among them, the Style not) and its style function
FeatureOf(id, featureObject, extractStyles, defaultStyle, sharedStyles, showPointNames) ==
    [id |-> id,
     properties |-> Delete(featureObject, <<"Style">>),
     styleFunction |->
        IF extractStyles
        THEN Some(createFeatureStyleFunction(Get(featureObject, <<"Style">>),
                                             Get(featureObject, <<"styleUrl">>),
                                             defaultStyle, sharedStyles, showPointNames))
        ELSE None]

readPlacemark_(node, base, extractStyles, defaultStyle, sharedStyles, showPointNames) ==
    FeatureOf(node.attributes.id,
              ParsePlacemark(node.kids, 1, base, <<[key |-> <<"geometry">>, value |-> Null]>>),
              extractStyles, defaultStyle, sharedStyles, showPointNames)

\* readSharedStyle_: the style goes into the registry under the URI of its id
readSharedStyle_(node, base, sharedStyles) ==
    IF node.attributes.id # None
    THEN Put(sharedStyles, StyleUri(node.attributes.id[1], base), Array(readStyle(node)))
    ELSE sharedStyles

\* the end of readSharedStyleMap_
SharedStyleMapInto(sharedStyles, styleUri, styleMapValue) ==
    IF styleMapValue = None THEN sharedStyles
    ELSE Put(sharedStyles, styleUri, styleMapValue[1])

readSharedStyleMap_(node, base, sharedStyles) ==
    IF node.attributes.id = None THEN sharedStyles
    ELSE SharedStyleMapInto(sharedStyles, StyleUri(node.attributes.id[1], base),
                            readStyleMapValue(node, base))

(***************************************************************************)
(* Writers.  A writer returns the element it fills.  The styles written    *)
(* have a stroke and a fill; the features written have no property outside *)
(* PLACEMARK_SEQUENCE besides the geometry.                                *)
(***************************************************************************)
\* writeDecimalTextNode, writeBooleanTextNode, writeStringTextNode: the text
\* of the text node
writeDecimalTextNode(decimal) == NumberToString(decimal)

writeBooleanTextNode(bool) == IF bool THEN <<"1">> ELSE <<"0">>

writeStringTextNode(string) == string

\* getStride() of a geometry with the layout
Stride(layout) == IF layout = "XY" THEN 2 ELSE IF layout = "XYZM" THEN 4 ELSE 3

NoGeometryProperties == [extrude |-> None, tessellate |-> None, altitudeMode |-> None]

\* the geometries of one type whose coordinates end at ends[i], ends[i+1], ...
RECURSIVE Pieces(_, _, _, _, _, _)
Pieces(type, layout, flatCoordinates, ends, i, offset) ==
    IF i > Len(ends) THEN <<>>
    ELSE <<[type |-> type, layout |-> layout,
            flatCoordinates |-> SubSeq(flatCoordinates, offset + 1, ends[i]),
            properties |-> NoGeometryProperties]>>
         \o Pieces(type, layout, flatCoordinates, ends, i + 1, ends[i])

\* Polygon.getLinearRings()
getLinearRings(polygon) ==
    Pieces("LinearRing", polygon.layout, polygon.flatCoordinates, polygon.ends, 1, 0)

\* the children for extrude, tessellate and altitudeMode, those that are set
PropertyNodes(properties) ==
    (IF properties.extrude # None
     THEN <<Leaf("extrude", writeBooleanTextNode(properties.extrude[1]))>> ELSE <<>>)
    \o (IF properties.tessellate # None
        THEN <<Leaf("tessellate", writeBooleanTextNode(properties.tessellate[1]))>> ELSE <<>>)
    \o (IF properties.altitudeMode # None
        THEN <<Leaf("altitudeMode", writeStringTextNode(properties.altitudeMode[1]))>>
        ELSE <<>>)

\* writePrimitiveGeometry on a Point, LineString or LinearRing element
writePrimitiveGeometry(tag, geometry) ==
    Parent(tag,
        PropertyNodes(geometry.properties)
        \o <<Leaf("coordinates",
                  writeCoordinatesTextNode(geometry.flatCoordinates, geometry.layout,
                                           Stride(geometry.layout)))>>)

\* writeBoundaryIs on an innerBoundaryIs or outerBoundaryIs element
writeBoundaryIs(tag, linearRing) ==
    Parent(tag, <<writePrimitiveGeometry("LinearRing", linearRing)>>)

\* the rest of writePolygon: the inner rings first, the outer ring last
PolygonNode(linearRings) ==
    Parent("Polygon",
        IF linearRings = <<>> THEN <<>>
        ELSE [i \in 1..(Len(linearRings) - 1) |->
                writeBoundaryIs("innerBoundaryIs", linearRings[i + 1])]
             \o <<writeBoundaryIs("outerBoundaryIs", linearRings[1])>>)

writePolygon(polygon) == PolygonNode(getLinearRings(polygon))

\* writeLineStyle: the colour, and the width when it is set
writeLineStyle(style) ==
    Parent("LineStyle",
        <<Leaf("color", writeColorTextNode(style.color))>>
        \o (IF style.width # None
            THEN <<Leaf("width", writeDecimalTextNode(style.width[1]))>> ELSE <<>>))

writePolyStyle(style) ==
    Parent("PolyStyle", <<Leaf("color", writeColorTextNode(style.color))>>)

\* writeStyle for a style without image and text: LineStyle, then PolyStyle
writeStyle(style) ==
    Parent("Style",
        (IF style.stroke # Null THEN <<writeLineStyle(style.stroke)>> ELSE <<>>)
        \o (IF style.fill # Null THEN <<writePolyStyle(style.fill)>> ELSE <<>>))

\* what a call of a serializer the table does not hold throws, and what
\* assert(false, 39) throws, in the place of the element
TypeError == [throws |-> "TypeError"]

AssertionError39 == [throws |-> "AssertionError"]

Throws(node) == "throws" \in DOMAIN node

\* the name of the element for a geometry of the type
GEOMETRY_TYPE_TO_NODENAME(type) ==
    IF type \in {"Point", "LineString", "LinearRing", "Polygon"} THEN type
    ELSE "MultiGeometry"

\* MultiPoint.getPoints(), MultiLineString.getLineStrings()
getPoints(multiPoint) ==
    Pieces("Point", multiPoint.layout, multiPoint.flatCoordinates,
           [i \in 1..(Len(multiPoint.flatCoordinates) \div Stride(multiPoint.layout)) |->
                i * Stride(multiPoint.layout)],
           1, 0)

getLineStrings(multiLineString) ==
    Pieces("LineString", multiLineString.layout, multiLineString.flatCoordinates,
           multiLineString.ends, 1, 0)

\* MultiPolygon.getPolygons(): the polygons from the i-th on, the first of
\* them starting at the offset
RECURSIVE PolygonPieces(_, _, _, _)
PolygonPieces(layout, flatCoordinates, endss, offset) ==
    IF endss = <<>> THEN <<>>
    ELSE <<[type |-> "Polygon", layout |-> layout,
            flatCoordinates |->
                SubSeq(flatCoordinates, offset + 1, endss[1][Len(endss[1])]),
            ends |-> [j \in DOMAIN endss[1] |-> endss[1][j] - offset],
            properties |-> NoGeometryProperties]>>
         \o PolygonPieces(layout, flatCoordinates, Tail(endss), endss[1][Len(endss[1])])

getPolygons(multiPolygon) ==
    PolygonPieces(multiPolygon.layout, multiPolygon.flatCoordinates, multiPolygon.endss, 0)

\* the geometries writeMultiGeometry serializes
MembersOf(geometry) ==
    IF geometry.type = "GeometryCollection" THEN geometry.geometries
    ELSE IF geometry.type = "MultiPoint" THEN getPoints(geometry)
    ELSE IF geometry.type = "MultiLineString" THEN getLineStrings(geometry)
    ELSE getPolygons(geometry)

\* the name of the element the factory writeMultiGeometry chose makes for
\* the member
MemberNodeName(type, member) ==
    IF type = "GeometryCollection" THEN GEOMETRY_TYPE_TO_NODENAME(member.type)
    ELSE IF type = "MultiPoint" THEN "Point"
    ELSE IF type = "MultiLineString" THEN "LineString"
    ELSE "Polygon"

\* MULTI_GEOMETRY_SERIALIZERS[node.localName] called on the element of that
\* name; the table has the keys LineString, Point, Polygon and
\* GeometryCollection
RECURSIVE MULTI_GEOMETRY_SERIALIZERS(_, _), writeMultiGeometry(_)
MULTI_GEOMETRY_SERIALIZERS(localName, member) ==
    IF localName \in {"LineString", "Point"} THEN writePrimitiveGeometry(localName, member)
    ELSE IF localName = "Polygon" THEN writePolygon(member)
    ELSE IF localName = "GeometryCollection" THEN writeMultiGeometry(member)
    ELSE TypeError

\* the MultiGeometry element of the elements of the members, unless the
\* serializer of one of them threw
MultiGeometryNode(nodes) ==
    IF \E i \in DOMAIN nodes : Throws(nodes[i])
    THEN nodes[CHOOSE i \in DOMAIN nodes :
                    Throws(nodes[i]) /\ \A j \in 1..(i - 1) : ~Throws(nodes[j])]
    ELSE Parent("MultiGeometry", nodes)

writeMultiGeometry(geometry) ==
    IF geometry.type \notin {"GeometryCollection", "MultiPoint", "MultiLineString",
                             "MultiPolygon"}
    THEN AssertionError39
    ELSE MultiGeometryNode(
            [i \in DOMAIN MembersOf(geometry) |->
                MULTI_GEOMETRY_SERIALIZERS(
                    MemberNodeName(geometry.type, MembersOf(geometry)[i]),
                    MembersOf(geometry)[i])])

\* the node GEOMETRY_NODE_FACTORY makes for the geometry of a placemark,
\* filled by the serializer PLACEMARK_SERIALIZERS has for its name
GeometryNode(geometry) ==
    IF GEOMETRY_TYPE_TO_NODENAME(geometry.type) = "MultiGeometry"
    THEN writeMultiGeometry(geometry)
    ELSE IF geometry.type = "Polygon" THEN writePolygon(geometry)
    ELSE writePrimitiveGeometry(geometry.type, geometry)

\* what the style function of the feature returns: the styles given to
\* setStyle, or those of the function createFeatureStyleFunction made
StylesOf(feature, sharedStyles) ==
    IF IsArray(feature.styleFunction[1]) THEN feature.styleFunction[1].array
    ELSE StyleFunction(feature.styleFunction[1], feature.properties, sharedStyles)

\* the properties writePlacemark writes, when the style function returned
\* the style: the Style, and the text of its text as the name
WithStyle(properties, style, writeStyles) ==
    IF style.text # Null
    THEN Put(IF writeStyles THEN Put(properties, <<"Style">>, style) ELSE properties,
             <<"name">>,
             IF style.text.text # None THEN String(style.text.text[1]) ELSE UndefinedValue)
    ELSE IF writeStyles THEN Put(properties, <<"Style">>, style)
    ELSE properties

\* the children for the keys of PLACEMARK_SEQUENCE from the i-th on, those
\* whose property is not undefined
PLACEMARK_SEQUENCE ==
    <<"name", "open", "visibility", "address", "phoneNumber", "description",
      "styleUrl", "Style">>

RECURSIVE SequenceNodes(_, _)
SequenceNodes(properties, i) ==
    IF i > Len(PLACEMARK_SEQUENCE) THEN <<>>
    ELSE (IF Get(properties, <<PLACEMARK_SEQUENCE[i]>>) = UndefinedValue THEN <<>>
          ELSE IF PLACEMARK_SEQUENCE[i] = "Style"
          THEN <<writeStyle(Get(properties, <<"Style">>))>>
          ELSE IF PLACEMARK_SEQUENCE[i] \in {"open", "visibility"}
          THEN <<Leaf(PLACEMARK_SEQUENCE[i],
                      writeBooleanTextNode(Get(properties, <<PLACEMARK_SEQUENCE[i]>>).boolean))>>
          ELSE <<Leaf(PLACEMARK_SEQUENCE[i],
                      writeStringTextNode(Get(properties, <<PLACEMARK_SEQUENCE[i]>>).string))>>)
         \o SequenceNodes(properties, i + 1)

\* the Placemark element of the id, the properties and the geometry
PlacemarkNode(id, properties, geometry) ==
    IF Truthy(geometry) /\ Throws(GeometryNode(geometry)) THEN GeometryNode(geometry)
    ELSE Element("Placemark",
            IF id # None /\ id # Some(<<>>) THEN WithId(id[1]) ELSE NoAttributes,
            <<>>,
            SequenceNodes(properties, 1)
            \o (IF Truthy(geometry) THEN <<GeometryNode(geometry)>> ELSE <<>>))

writePlacemark(feature, writeStyles, sharedStyles) ==
    PlacemarkNode(feature.id,
        IF feature.styleFunction # None
        THEN WithStyle(feature.properties, StylesOf(feature, sharedStyles)[1], writeStyles)
        ELSE feature.properties,
        Get(feature.properties, <<"geometry">>))

\* writeDocument: one Placemark for every feature
\* the element with the children, unless the writer of one of them threw
ParentUnlessThrown(tag, nodes) ==
    IF \E i \in DOMAIN nodes : Throws(nodes[i])
    THEN nodes[CHOOSE i \in DOMAIN nodes :
                    Throws(nodes[i]) /\ \A j \in 1..(i - 1) : ~Throws(nodes[j])]
    ELSE Parent(tag, nodes)

writeDocument(featureArray, writeStyles, sharedStyles) ==
    ParentUnlessThrown("Document",
        [i \in DOMAIN featureArray |-> writePlacemark(featureArray[i], writeStyles, sharedStyles)])

\* writeFeaturesNode with a Document whatever the number of features
writeFeaturesNodeInDocument(featureArray, writeStyles, sharedStyles) ==
    ParentUnlessThrown("kml", <<writeDocument(featureArray, writeStyles, sharedStyles)>>)

\* writeFeaturesNode: a kml element with a Document for several featureArray,
\* with a Placemark for one
writeFeaturesNode(featureArray, writeStyles, sharedStyles) ==
    ParentUnlessThrown("kml",
        IF Len(featureArray) > 1 THEN <<writeDocument(featureArray, writeStyles, sharedStyles)>>
        ELSE IF Len(featureArray) = 1
        THEN <<writePlacemark(featureArray[1], writeStyles, sharedStyles)>>
        ELSE <<>>)

(***************************************************************************)
(* readPlacemark_ under test: placemarks with description elements and     *)
(* extended data in every order.                                           *)
(***************************************************************************)
MaxPlacemarkChildren == 3

DataElement(attributes, kids) == Element("Data", attributes, <<>>, kids)

\* the children a placemark is made of
PlacemarkChildren ==
    { Leaf("description", <<"S">>),
      Leaf("name", <<"N">>),
      Parent("ExtendedData",
          <<DataElement(WithName(<<"description">>), <<Leaf("value", <<"E">>)>>)>>),
      Parent("ExtendedData", <<DataElement(WithName(<<"description">>), <<>>)>>),
      Parent("ExtendedData",
          <<DataElement(NoAttributes, <<Leaf("displayName", <<"description">>),
                                        Leaf("value", <<"G">>)>>)>>),
      Parent("ExtendedData",
          <<Parent("SchemaData",
              <<Element("SimpleData", WithName(<<"description">>), <<"F">>, <<>>)>>)>>) }

PlacemarkInputs ==
    UNION {[1..n -> PlacemarkChildren] : n \in 0..MaxPlacemarkChildren}

InitPlacemark ==
    /\ CodecIdle
    /\ stage = "placemark" /\ arg \in PlacemarkInputs /\ ret = <<>>

\* readPlacemark_ on a Placemark element with these children
ReadPlacemarkElement ==
    /\ stage = "placemark"
    /\ stage' = "placemarkRead"
    /\ ret' = readPlacemark_(Parent("Placemark", arg), baseURI, extractStyles_,
                             defaultStyle_, sharedStyles_, showPointNames_)
    /\ UNCHANGED arg /\ CodecUnchanged

NextPlacemark == ReadPlacemarkElement

SpecPlacemark == InitPlacemark /\ [][NextPlacemark]_vars

\* the entry of an ExtendedData element is named description
NamesDescription(entry) ==
    IF entry.tag = "SchemaData"
    THEN \E i \in DOMAIN entry.kids :
            entry.kids[i].attributes.name = Some(<<"description">>)
    ELSE \/ entry.attributes.name = Some(<<"description">>)
         \/ /\ entry.attributes.name = None
            /\ \E i \in DOMAIN entry.kids :
                    /\ entry.kids[i].tag = "displayName"
                    /\ entry.kids[i].text = <<"description">>

\* the value of an entry: the text of the SimpleData, the text of the value
\* child of the Data, undefined when the Data has no value child
EntryValue(entry) ==
    IF entry.tag = "SchemaData" THEN String(entry.kids[1].text)
    ELSE IF \E i \in DOMAIN entry.kids : entry.kids[i].tag = "value"
    THEN String(entry.kids[CHOOSE i \in DOMAIN entry.kids : entry.kids[i].tag = "value"].text)
    ELSE UndefinedValue

\* the child is a description element, or extended data with an entry named
\* description
IsScalarDescription(kid) == kid.tag = "description"

IsExtendedDescription(kid) ==
    kid.tag = "ExtendedData" /\ NamesDescription(kid.kids[1])

\* what the child gives the description
DescriptionGiven(kid) ==
    IF IsScalarDescription(kid) THEN String(kid.text) ELSE EntryValue(kid.kids[1])

\* C6, as stated: when a placemark has a description element and an
\* extended-data entry named description, the description of the feature is
\* the value of an extended-data entry.
ExtendedDataOverwrites ==
    ( /\ stage = "placemarkRead"
      /\ \E i \in DOMAIN arg : IsScalarDescription(arg[i])
      /\ \E i \in DOMAIN arg : IsExtendedDescription(arg[i]) ) =>
        \E i \in DOMAIN arg :
            /\ IsExtendedDescription(arg[i])
            /\ Get(ret.properties, <<"description">>) = DescriptionGiven(arg[i])

\* C6, as the code has it: the description of the feature is what the last
\* child in document order gives it, be that a description element or an
\* extended-data entry named description; the extended-data value is the
\* final one only when its entry comes after the description element.
LastWriteWins ==
    stage = "placemarkRead" =>
        \A i \in DOMAIN arg :
            ( /\ IsScalarDescription(arg[i]) \/ IsExtendedDescription(arg[i])
              /\ \A j \in (i + 1)..Len(arg) :
                    ~IsScalarDescription(arg[j]) /\ ~IsExtendedDescription(arg[j]) ) =>
                Get(ret.properties, <<"description">>) = DescriptionGiven(arg[i])

\* a placemark whose description element follows its extended data, read
\* with the text of the description element as the description
LastWriteWinsWitness ==
    /\ stage = "placemarkRead"
    /\ Len(arg) = 2
    /\ IsExtendedDescription(arg[1]) /\ IsScalarDescription(arg[2])
    /\ EntryValue(arg[1].kids[1]) = String(<<"E">>)
    /\ Get(ret.properties, <<"description">>) = String(<<"S">>)

(***************************************************************************)
(* The codec instance: decode calls, one after the other, on one instance, *)
(* and style requests for the features they returned.                      *)
(***************************************************************************)
MaxCalls == 2

Red == <<"f", "f", "0", "0", "0", "0", "f", "f">>

Green == <<"f", "f", "0", "0", "f", "f", "0", "0">>

StyleElement(attributes, color) ==
    Element("Style", attributes, <<>>, <<Parent("LineStyle", <<Leaf("color", color)>>)>>)

StyleMapElement(id, styleUrl) ==
    Element("StyleMap", WithId(id), <<>>,
        <<Parent("Pair", <<Leaf("key", <<"normal">>), Leaf("styleUrl", styleUrl)>>)>>)

\* the documents the calls decode
Documents ==
    << \* a shared style, then placemarks that refer to it, one with a style of its own
       Parent("Document",
           <<StyleElement(WithId(<<"a">>), Red),
             Parent("Placemark", <<Leaf("name", <<"A">>), PointElement(OnePosition),
                                   Leaf("styleUrl", <<"#", "a">>)>>),
             Parent("Placemark", <<Leaf("name", <<"B">>), PointElement(OnePosition),
                                   StyleElement(NoAttributes, Green),
                                   Leaf("styleUrl", <<"#", "a">>)>>)>>),
       \* a placemark that refers to a style of a later folder
       Parent("Document",
           <<Parent("Folder",
                <<Parent("Placemark", <<Leaf("name", <<"L">>), LineStringElement(TwoPositions),
                                        Leaf("styleUrl", <<"#", "b">>)>>)>>),
             Parent("Folder", <<StyleElement(WithId(<<"b">>), Green)>>)>>),
       \* the same id as in the first document, and a style URL without "#"
       Parent("Document",
           <<StyleElement(WithId(<<"a">>), Green),
             Parent("Placemark", <<Leaf("name", <<"N">>), Leaf("styleUrl", <<"a">>)>>)>>),
       \* a style map that leads to a style no element of the document declares
       Parent("Document",
           <<StyleMapElement(<<"m">>, <<"#", "b">>),
             Parent("Placemark", <<PointElement(OnePosition),
                                   Leaf("styleUrl", <<"#", "m">>)>>)>>),
       \* placemarks without any style, in a kml element that has a Style child
       \* and a Document with a child that is no KML element
       Parent("kml",
           <<StyleElement(WithId(<<"b">>), Red),
             Parent("Document",
                <<Leaf("Snippet", <<>>),
                  Parent("Placemark", <<Leaf("name", <<"P">>), PointElement(OnePosition)>>),
                  Parent("Placemark", <<>>)>>)>>) >>

\* a default style given to the constructor: a stroke only
CustomStyleArray ==
    <<[fill |-> Null, image |-> Null, stroke |-> [color |-> DEFAULT_COLOR, width |-> Some(Num(3))],
       text |-> Null, zIndex |-> None]>>

\* new KML(options), in a page with or without a base URI
Init ==
    /\ defaultStyle_ \in {DEFAULT_STYLE_ARRAY, CustomStyleArray}
    /\ extractStyles_ \in BOOLEAN
    /\ writeStyles_ = TRUE
    /\ showPointNames_ \in BOOLEAN
    /\ sharedStyles_ = <<>>
    /\ pc = "idle" /\ baseURI \in {None, Some(DocumentBase)}
    /\ todo = <<>> /\ acc = <<>>
    /\ features = <<>> /\ lastStyle = <<>> /\ calls = <<>>
    /\ stage = "codec" /\ arg = <<>> /\ ret = <<>>

\* the elements to parse, each with the function that is to parse it: within
\* is "call" for the node of the call, "kml" for a child of a kml element
\* and "container" for a child of a Document or Folder
Within(kids, within) == [i \in DOMAIN kids |-> [node |-> kids[i], within |-> within]]

\* readFeaturesFromNode(node) with the registry emptied first
ReadFeaturesFromNodeFresh(node) ==
    /\ pc = "idle"
    /\ Len(calls) < MaxCalls
    /\ pc' = "reading"
    /\ todo' = <<[node |-> node, within |-> "call"]>>
    /\ acc' = <<>>
    /\ sharedStyles_' = <<>>
    /\ calls' = Append(calls, [registered |-> <<>>])
    /\ UNCHANGED <<defaultStyle_, extractStyles_, writeStyles_, showPointNames_, baseURI,
                   features, lastStyle, frameVars>>

\* readFeaturesFromNode(node) is called: the node is to be parsed
ReadFeaturesFromNode(node) ==
    /\ pc = "idle"
    /\ Len(calls) < MaxCalls
    /\ pc' = "reading"
    /\ todo' = <<[node |-> node, within |-> "call"]>>
    /\ acc' = <<>>
    /\ calls' = Append(calls, [registered |-> <<>>])
    /\ UNCHANGED <<codecVars, baseURI, features, lastStyle, frameVars>>

\* readFeaturesFromNode for a kml element: its children are read, one after
\* the other, by readFeaturesFromNode
ReadKml ==
    /\ pc = "reading" /\ todo # <<>>
    /\ Head(todo).node.tag = "kml" /\ Head(todo).within \in {"call", "kml"}
    /\ todo' = Within(Head(todo).node.kids, "kml") \o Tail(todo)
    /\ UNCHANGED <<codecVars, pc, baseURI, acc, callerVars, frameVars>>

\* the children of a container in three passes: the Style and StyleMap
\* elements, then the Placemark elements, then the rest
StylesThenPlacemarks(kids) ==
    SelectSeq(kids, LAMBDA kid : kid.tag \in {"Style", "StyleMap"})
    \o SelectSeq(kids, LAMBDA kid : kid.tag = "Placemark")
    \o SelectSeq(kids, LAMBDA kid : kid.tag \notin {"Style", "StyleMap", "Placemark"})

\* readDocumentOrFolder_ with the children taken in three passes
ReadDocumentOrFolderInPasses ==
    /\ pc = "reading" /\ todo # <<>>
    /\ Head(todo).node.tag \in {"Document", "Folder"}
    /\ todo' = Within(StylesThenPlacemarks(Head(todo).node.kids), "container") \o Tail(todo)
    /\ UNCHANGED <<codecVars, pc, baseURI, acc, callerVars, frameVars>>

\* readDocumentOrFolder_: the children of the element are parsed in document
\* order, before what follows the element
ReadDocumentOrFolder ==
    /\ pc = "reading" /\ todo # <<>>
    /\ Head(todo).node.tag \in {"Document", "Folder"}
    /\ todo' = Within(Head(todo).node.kids, "container") \o Tail(todo)
    /\ UNCHANGED <<codecVars, pc, baseURI, acc, callerVars, frameVars>>

\* readSharedStyle_ for a Style child of a Document or Folder
ReadSharedStyle ==
    /\ pc = "reading" /\ todo # <<>>
    /\ Head(todo).node.tag = "Style" /\ Head(todo).within = "container"
    /\ sharedStyles_' = readSharedStyle_(Head(todo).node, baseURI, sharedStyles_)
    /\ calls' = [calls EXCEPT ![Len(calls)].registered =
                    readSharedStyle_(Head(todo).node, baseURI, @)]
    /\ todo' = Tail(todo)
    /\ UNCHANGED <<defaultStyle_, extractStyles_, writeStyles_, showPointNames_, pc,
                   baseURI, acc, features, lastStyle, frameVars>>

\* readSharedStyleMap_ for a StyleMap child of a Document or Folder
ReadSharedStyleMap ==
    /\ pc = "reading" /\ todo # <<>>
    /\ Head(todo).node.tag = "StyleMap" /\ Head(todo).within = "container"
    /\ sharedStyles_' = readSharedStyleMap_(Head(todo).node, baseURI, sharedStyles_)
    /\ calls' = [calls EXCEPT ![Len(calls)].registered =
                    readSharedStyleMap_(Head(todo).node, baseURI, @)]
    /\ todo' = Tail(todo)
    /\ UNCHANGED <<defaultStyle_, extractStyles_, writeStyles_, showPointNames_, pc,
                   baseURI, acc, features, lastStyle, frameVars>>

\* the assertion of readMultiGeometry fails for a MultiGeometry child of the
\* Placemark
PlacemarkThrows(node) ==
    \E i \in DOMAIN node.kids :
        /\ node.kids[i].tag = "MultiGeometry"
        /\ IsThrown(readMultiGeometry(node.kids[i])[1])

\* readPlacemark_ for a Placemark: the feature is pushed.  With the feature
\* go the element it was read from, the call that read it and the keys the
\* registry held then.  When the assertion of readMultiGeometry fails the
\* exception leaves readFeaturesFromNode: the call returns no features.
ReadPlacemark ==
    /\ pc = "reading" /\ todo # <<>>
    /\ Head(todo).node.tag = "Placemark"
    /\ IF PlacemarkThrows(Head(todo).node)
       THEN pc' = "idle" /\ todo' = <<>> /\ acc' = <<>>
       ELSE /\ acc' = Append(acc,
                        [feature |-> readPlacemark_(Head(todo).node, baseURI, extractStyles_,
                                                    defaultStyle_, sharedStyles_,
                                                    showPointNames_),
                         node |-> Head(todo).node, call |-> Len(calls),
                         known |-> Keys(sharedStyles_)])
            /\ todo' = Tail(todo)
            /\ pc' = pc
    /\ UNCHANGED <<codecVars, baseURI, callerVars, frameVars>>

\* an element none of the parsers is for, where it stands, is passed over
SkipElement ==
    /\ pc = "reading" /\ todo # <<>>
    /\ Head(todo).node.tag \notin {"Document", "Folder", "Placemark"}
    /\ Head(todo).node.tag = "kml" => Head(todo).within = "container"
    /\ Head(todo).node.tag \in {"Style", "StyleMap"} => Head(todo).within # "container"
    /\ todo' = Tail(todo)
    /\ UNCHANGED <<codecVars, pc, baseURI, acc, callerVars, frameVars>>

\* readFeaturesFromNode returns the features
ReturnFeatures ==
    /\ pc = "reading" /\ todo = <<>>
    /\ pc' = "idle"
    /\ features' = features \o acc
    /\ acc' = <<>>
    /\ UNCHANGED <<codecVars, baseURI, todo, lastStyle, calls, frameVars>>

\* the caller calls the style function of a feature it holds
RequestStyle(i) ==
    /\ pc = "idle"
    /\ features[i].feature.styleFunction # None
    /\ lastStyle' = <<[feature |-> i, after |-> Len(calls),
                       style |-> StyleFunction(features[i].feature.styleFunction[1],
                                               features[i].feature.properties,
                                               sharedStyles_)]>>
    /\ UNCHANGED <<codecVars, readVars, features, calls, frameVars>>

Next ==
    \/ \E d \in DOMAIN Documents : ReadFeaturesFromNode(Documents[d])
    \/ ReadKml
    \/ ReadDocumentOrFolder
    \/ ReadSharedStyle
    \/ ReadSharedStyleMap
    \/ ReadPlacemark
    \/ SkipElement
    \/ ReturnFeatures
    \/ \E i \in DOMAIN features : RequestStyle(i)

Spec == Init /\ [][Next]_vars

(***************************************************************************)
(* The style a request returned, against the placemark the feature was     *)
(* read from.                                                              *)
(***************************************************************************)
HasChild(node, tag) == \E i \in DOMAIN node.kids : node.kids[i].tag = tag

LastChild(node, tag) ==
    node.kids[CHOOSE i \in DOMAIN node.kids :
                 /\ node.kids[i].tag = tag
                 /\ \A j \in (i + 1)..Len(node.kids) : node.kids[j].tag # tag]

\* the placemark has a styleUrl and no style of its own
OnlyStyleUrl(node) ==
    /\ HasChild(node, "styleUrl")
    /\ ~HasChild(node, "Style")
    /\ ~HasChild(node, "StyleMap")

\* the styleUrl of the placemark, as readURI gives it
StyleUrlOf(node) == readURI(LastChild(node, "styleUrl").text, baseURI)

RECURSIVE PutAll(_, _, _)
PutAll(object, entries, i) ==
    IF i > Len(entries) THEN object
    ELSE PutAll(Put(object, entries[i].key, entries[i].value), entries, i + 1)

\* what the first n calls registered, one call after the other
RECURSIVE RegistryAfter(_)
RegistryAfter(n) ==
    IF n = 0 THEN <<>> ELSE PutAll(RegistryAfter(n - 1), calls[n].registered, 1)

\* the array is the style, or the style and one more element
StartsWith(style, array) ==
    /\ Len(style) \in {Len(array), Len(array) + 1}
    /\ SubSeq(style, 1, Len(array)) = array

\* the feature of the last request, and the registry as it was then
Requested == features[lastStyle[1].feature]

RequestedRegistry == RegistryAfter(lastStyle[1].after)

\* the array the precedence rule names for the placemark
ResolvedStyle(node, registry) ==
    IF HasChild(node, "Style") THEN readStyle(LastChild(node, "Style"))
    ELSE IF HasChild(node, "styleUrl")
    THEN findStyle(String(StyleUrlOf(node)), defaultStyle_, registry)
    ELSE defaultStyle_

\* C1: the style function of a feature returns the inline style of the
\* placemark when there is one, whatever the styleUrl and the registry hold;
\* else what the registry yields for the styleUrl; else the default style of
\* the instance.  (A name style may follow it; without showPointNames the
\* array returned is exactly that.)
StylePrecedence ==
    lastStyle # <<>> /\ ~HasChild(Requested.node, "StyleMap") =>
        /\ StartsWith(lastStyle[1].style, ResolvedStyle(Requested.node, RequestedRegistry))
        /\ ~showPointNames_ =>
                lastStyle[1].style = ResolvedStyle(Requested.node, RequestedRegistry)

\* a request for a placemark that has an inline style and a styleUrl the
\* registry holds another style for
StylePrecedenceWitness ==
    /\ lastStyle # <<>>
    /\ HasChild(Requested.node, "Style") /\ HasChild(Requested.node, "styleUrl")
    /\ IsArray(Get(RequestedRegistry, StyleUrlOf(Requested.node)))
    /\ Get(RequestedRegistry, StyleUrlOf(Requested.node)).array
            # readStyle(LastChild(Requested.node, "Style"))
    /\ lastStyle[1].style[1] = readStyle(LastChild(Requested.node, "Style"))[1]

\* the placemark of the last request was read before its styleUrl was
\* registered, under that key or under "#" and that key
ForwardReference ==
    /\ lastStyle # <<>>
    /\ OnlyStyleUrl(Requested.node)
    /\ StyleUrlOf(Requested.node) \notin Requested.known
    /\ (<<"#">> \o StyleUrlOf(Requested.node)) \notin Requested.known

\* C2, as stated: a placemark read before the style its styleUrl names was
\* registered gets the default style, also when the style is requested after
\* the whole document has been decoded.
ForwardReferenceGetsDefault ==
    ForwardReference => StartsWith(lastStyle[1].style, defaultStyle_)

\* C2, as the code has it: the styleUrl is looked up when the style is
\* requested, so a placemark read before the style its styleUrl names was
\* registered gets that style once it is registered, and the default style
\* only as long as the registry holds nothing for the styleUrl.
ForwardReferenceResolvesOnRequest ==
    ForwardReference =>
        /\ IsArray(Get(RequestedRegistry, StyleUrlOf(Requested.node))) =>
                StartsWith(lastStyle[1].style,
                           Get(RequestedRegistry, StyleUrlOf(Requested.node)).array)
        /\ ( /\ ~Has(RequestedRegistry, StyleUrlOf(Requested.node))
             /\ ~Has(RequestedRegistry, <<"#">> \o StyleUrlOf(Requested.node)) ) =>
                StartsWith(lastStyle[1].style, defaultStyle_)

\* a request after the document was decoded, for a placemark whose styleUrl
\* names a style that a later folder of the same document declares
ForwardReferenceWitness ==
    /\ ForwardReference
    /\ lastStyle[1].after = Requested.call
    /\ IsArray(Get(calls[Requested.call].registered, StyleUrlOf(Requested.node)))
    /\ lastStyle[1].style[1]
            = Get(calls[Requested.call].registered, StyleUrlOf(Requested.node)).array[1]
    /\ lastStyle[1].style[1] # defaultStyle_[1]

\* C3, as stated: the styleUrl of a feature is resolved against the entries
\* registered by the call that produced the feature, and no others.
RegistryCallScoped ==
    lastStyle # <<>> /\ OnlyStyleUrl(Requested.node) =>
        StartsWith(lastStyle[1].style,
                   findStyle(String(StyleUrlOf(Requested.node)), defaultStyle_,
                             calls[Requested.call].registered))

\* C3, as the code has it: the registry belongs to the instance.  It holds
\* what all the calls so far registered, a later entry replacing an earlier
\* one of the same key, and the styleUrl of a feature is resolved against
\* the registry as it is when the style is requested.
RegistryInstanceScoped ==
    /\ sharedStyles_ = RegistryAfter(Len(calls))
    /\ lastStyle # <<>> /\ OnlyStyleUrl(Requested.node) =>
            StartsWith(lastStyle[1].style,
                       findStyle(String(StyleUrlOf(Requested.node)), defaultStyle_,
                                 RequestedRegistry))

\* a request whose answer comes from an entry of another call than the one
\* that produced the feature
RegistryInstanceScopedWitness ==
    /\ lastStyle # <<>> /\ OnlyStyleUrl(Requested.node)
    /\ findStyle(String(StyleUrlOf(Requested.node)), defaultStyle_, RequestedRegistry)
            # findStyle(String(StyleUrlOf(Requested.node)), defaultStyle_,
                        calls[Requested.call].registered)
    /\ StartsWith(lastStyle[1].style,
                  findStyle(String(StyleUrlOf(Requested.node)), defaultStyle_,
                            RequestedRegistry))

\* the feature has a geometry and it is a Point
IsPoint(properties) ==
    /\ Get(properties, <<"geometry">>) # Null
    /\ Get(properties, <<"geometry">>).type = "Point"

\* a style of a text only that carries the name
IsNameStyle(style, name) ==
    /\ style.fill = Null /\ style.image = Null /\ style.stroke = Null
    /\ style.text # Null
    /\ style.text.text = Some(name)

\* C5: the style function appends one text-only style carrying the name of
\* the feature if and only if showPointNames is set, the geometry of the
\* feature is a Point and the feature has a non-empty name; in every other
\* case, a feature without geometry among them, it returns the resolved
\* array with nothing appended.
PointNameSynthesis ==
    lastStyle # <<>> /\ ~HasChild(Requested.node, "StyleMap") =>
        IF /\ showPointNames_
           /\ IsPoint(Requested.feature.properties)
           /\ Truthy(Get(Requested.feature.properties, <<"name">>))
        THEN /\ Len(lastStyle[1].style)
                    = Len(ResolvedStyle(Requested.node, RequestedRegistry)) + 1
             /\ StartsWith(lastStyle[1].style,
                           ResolvedStyle(Requested.node, RequestedRegistry))
             /\ IsNameStyle(lastStyle[1].style[Len(lastStyle[1].style)],
                            Get(Requested.feature.properties, <<"name">>).string)
        ELSE lastStyle[1].style = ResolvedStyle(Requested.node, RequestedRegistry)

\* C5 for the features that have a geometry: the name style is appended if
\* and only if showPointNames is set, the geometry is a Point and the name
\* is not empty.
PointNameSynthesisWithGeometry ==
    ( /\ lastStyle # <<>>
      /\ Get(Requested.feature.properties, <<"geometry">>) # Null ) => PointNameSynthesis

\* C10: when the styleUrl is not a key of the registry and "#" followed by
\* the styleUrl is, the style comes from the entry under "#" followed by the
\* styleUrl, not from the default style.
MissingSigilTolerance ==
    ( /\ lastStyle # <<>>
      /\ OnlyStyleUrl(Requested.node)
      /\ ~Has(RequestedRegistry, StyleUrlOf(Requested.node))
      /\ Has(RequestedRegistry, <<"#">> \o StyleUrlOf(Requested.node)) ) =>
        StartsWith(lastStyle[1].style,
                   FindStyle(Get(RequestedRegistry, <<"#">> \o StyleUrlOf(Requested.node)),
                             defaultStyle_, RequestedRegistry, {}))

\* a request for a placemark whose styleUrl lacks the "#" of the key its
\* style is registered under, answered with that style
MissingSigilToleranceWitness ==
    /\ lastStyle # <<>>
    /\ OnlyStyleUrl(Requested.node)
    /\ ~Has(RequestedRegistry, StyleUrlOf(Requested.node))
    /\ IsArray(Get(RequestedRegistry, <<"#">> \o StyleUrlOf(Requested.node)))
    /\ lastStyle[1].style[1]
            = Get(RequestedRegistry, <<"#">> \o StyleUrlOf(Requested.node)).array[1]
    /\ lastStyle[1].style[1] # defaultStyle_[1]

(***************************************************************************)
(* A polygon feature with a style is written, and the document is read by  *)
(* the same instance.                                                      *)
(***************************************************************************)
MaxRings == 3

RingA ==
    <<Num(0), Num(0), Num(0),  Num(40), Num(0), Num(0),
      Num(40), Num(-35), Norm(25, -1),  Num(0), Num(0), Num(0)>>

RingB ==
    <<Num(1), Num(-1), Num(7),  Norm(15, -1), Norm(1, -7), Num(7),
      Num(2), Num(-2), Num(7),  Num(1), Num(-1), Num(7)>>

\* the polygon of the rings: XYZ, the ends as setCoordinates computes them
PolygonOfRings(rings) ==
    [type |-> "Polygon", layout |-> "XYZ",
     flatCoordinates |-> FlatOfAll([i \in DOMAIN rings |-> [flatCoordinates |-> rings[i]]]),
     ends |-> EndsOfAll([i \in DOMAIN rings |-> [flatCoordinates |-> rings[i]]], 0),
     properties |-> NoGeometryProperties]

Polygons ==
    {PolygonOfRings(rings) : rings \in UNION {[1..n -> {RingA, RingB}] : n \in 1..MaxRings}}

FillColors ==
    { <<Num(255), Num(0), Num(0), Num(1)>>,
      <<Num(0), Num(128), Num(255), Norm(5, -1)>>,
      <<Num(17), Num(34), Num(51), Norm(3, -1)>>,
      <<Num(0), Num(0), Num(255), Norm(1, -9)>> }

StrokeColors ==
    { <<Num(0), Num(255), Num(0), Num(1)>>,
      <<Num(1), Num(2), Num(3), Norm(25, -2)>> }

StrokeWidths == {None, Some(Num(2)), Some(Norm(25, -1))}

\* a style made of a fill and a stroke
PolygonStyles ==
    {[fill |-> [color |-> f], image |-> Null, stroke |-> [color |-> c, width |-> w],
      text |-> Null, zIndex |-> None] :
        f \in FillColors, c \in StrokeColors, w \in StrokeWidths}

\* new Feature(polygon) and setStyle(style)
PolygonFeatures ==
    {[id |-> None, properties |-> <<[key |-> <<"geometry">>, value |-> g]>>,
      styleFunction |-> Some(Array(<<s>>))] : g \in Polygons, s \in PolygonStyles}

InitPoly ==
    /\ defaultStyle_ = DEFAULT_STYLE_ARRAY
    /\ extractStyles_ = TRUE /\ writeStyles_ = TRUE /\ showPointNames_ = TRUE
    /\ sharedStyles_ = <<>>
    /\ pc = "idle" /\ baseURI = Some(DocumentBase) /\ todo = <<>> /\ acc = <<>>
    /\ features = <<>> /\ lastStyle = <<>> /\ calls = <<>>
    /\ stage = "feature" /\ arg \in PolygonFeatures /\ ret = <<>>

\* writeFeaturesNode([feature])
WriteFeaturesNode ==
    /\ stage = "feature" /\ pc = "idle"
    /\ stage' = "written"
    /\ ret' = writeFeaturesNode(<<arg>>, writeStyles_, sharedStyles_)
    /\ UNCHANGED arg /\ CodecUnchanged

\* readFeaturesFromNode on the node written
ReadWrittenNode ==
    /\ stage = "written"
    /\ ReadFeaturesFromNode(ret)

NextPoly ==
    \/ WriteFeaturesNode
    \/ ReadWrittenNode
    \/ ReadKml
    \/ ReadPlacemark
    \/ ReturnFeatures
    \/ \E i \in DOMAIN features : RequestStyle(i)

SpecPoly == InitPoly /\ [][NextPoly]_vars

\* the colour read has the red, green and blue of the colour written and an
\* alpha at most one byte step from its alpha
ColorsMatch(read, written) ==
    /\ read[1] = written[1] /\ read[2] = written[2] /\ read[3] = written[3]
    /\ WithinOneByte(written[4], AlphaByte(read[4]))

\* the geometry read is the polygon written: coordinates, rings, ring ends
SamePolygon(read, written) ==
    /\ read # Null
    /\ read.type = "Polygon" /\ read.layout = "XYZ"
    /\ read.flatCoordinates = written.flatCoordinates
    /\ Len(read.ends) = Len(written.ends)
    /\ read.ends = written.ends

\* the style read has the fill colour and the stroke colour of the style
\* written
SameColors(read, written) ==
    /\ read.fill # Null /\ ColorsMatch(read.fill.color, written.fill.color)
    /\ read.stroke # Null /\ ColorsMatch(read.stroke.color, written.stroke.color)

\* the alpha is one that JavaScript prints without an exponent when it is
\* multiplied by 255
PlainAlpha(color) ==
    color[4].m = 0 \/ Len(NatToDigits(255 * color[4].m)) + color[4].e > -6

\* C7: a feature with an XYZ Polygon of one or more rings and a style of a
\* fill colour and a stroke colour and width, written and read back, has a
\* Polygon with the same flat coordinates, the same rings in the same order
\* with the same ends, and a style whose fill and stroke colours are the
\* originals up to one byte step of alpha.
PolygonRoundTrip ==
    lastStyle # <<>> =>
        /\ SamePolygon(Get(Requested.feature.properties, <<"geometry">>),
                       Get(arg.properties, <<"geometry">>))
        /\ SameColors(lastStyle[1].style[1], arg.styleFunction[1].array[1])

\* C7 for the colours whose alpha is written without an exponent
PolygonRoundTripPlainAlpha ==
    ( /\ lastStyle # <<>>
      /\ PlainAlpha(arg.styleFunction[1].array[1].fill.color)
      /\ PlainAlpha(arg.styleFunction[1].array[1].stroke.color) ) => PolygonRoundTrip

\* C7 for the geometry alone
PolygonRoundTripGeometry ==
    lastStyle # <<>> =>
        SamePolygon(Get(Requested.feature.properties, <<"geometry">>),
                    Get(arg.properties, <<"geometry">>))

(***************************************************************************)
(* readPlacemark_ under test on placemarks with a Style of their own whose *)
(* sub-styles hold colour texts inside and outside the colour grammar.     *)
(***************************************************************************)
MaxSubStyles == 2

NotAColor == <<"n", "o", "t", "-", "a", "-", "c", "o", "l", "o", "r">>

\* texts outside /^\s*#?\s*([0-9A-Fa-f]{8})\s*$/
MalformedTexts == {NotAColor, <<>>, <<"f", "f", "0", "0">>, <<"#", "g", "g", "0", "0", "0", "0", "f", "f">>}

\* the children of a sub-style: no colour, one colour, or a colour of the
\* grammar followed by one outside it
ColourChildren ==
    {<<>>, <<Leaf("color", Red)>>}
        \cup {<<Leaf("color", c)>> : c \in MalformedTexts}
        \cup {<<Leaf("color", Red), Leaf("color", NotAColor)>>}

SubStyles ==
    {Parent(tag, kids) : tag \in {"LineStyle", "PolyStyle", "LabelStyle"},
                         kids \in ColourChildren}

SubStyleInputs == UNION {[1..n -> SubStyles] : n \in 1..MaxSubStyles}

\* a named point placemark with a Style made of the sub-styles
StyledPlacemark(subStyles) ==
    Parent("Placemark",
        <<Leaf("name", <<"N">>), Parent("Style", subStyles), PointElement(OnePosition)>>)

InitStyle ==
    /\ CodecIdle
    /\ stage = "style" /\ arg \in SubStyleInputs /\ ret = <<>>

\* readPlacemark_ on the placemark whose Style holds these sub-styles
ReadStyledPlacemark ==
    /\ stage = "style"
    /\ stage' = "styleRead"
    /\ ret' = readPlacemark_(StyledPlacemark(arg), baseURI, extractStyles_,
                             defaultStyle_, sharedStyles_, showPointNames_)
    /\ UNCHANGED arg /\ CodecUnchanged

NextStyle == ReadStyledPlacemark

SpecStyle == InitStyle /\ [][NextStyle]_vars

\* the sub-styles without their colour children outside the grammar
WithoutMalformed(subStyles) ==
    [i \in DOMAIN subStyles |->
        Parent(subStyles[i].tag,
               SelectSeq(subStyles[i].kids,
                         LAMBDA kid : ~(kid.tag = "color" /\ kid.text \in MalformedTexts)))]

\* the last sub-style with the tag has colour children, all outside the grammar
LastIsMalformed(subStyles, tag) ==
    \E i \in DOMAIN subStyles :
        /\ subStyles[i].tag = tag
        /\ \A j \in (i + 1)..Len(subStyles) : subStyles[j].tag # tag
        /\ subStyles[i].kids # <<>>
        /\ \A k \in DOMAIN subStyles[i].kids : subStyles[i].kids[k].text \in MalformedTexts

\* the style of the placemark just read
StyleRead == ret.styleFunction[1].style.array[1]

\* C11: Malformed colour recovery.  A colour text outside the colour grammar
\* in a PolyStyle, LineStyle or LabelStyle is read as absent: the placemark is
\* read with its name, its geometry and a style, the style is the one the
\* document without that colour element gives, and the fill, the stroke or
\* the fill of the text whose sub-style has no other colour has the default
\* colour [255,255,255,1].
MalformedColourRecovery ==
    stage = "styleRead" =>
        /\ Get(ret.properties, <<"name">>) = String(<<"N">>)
        /\ Get(ret.properties, <<"geometry">>).type = "Point"
        /\ Len(ret.styleFunction[1].style.array) = 1
        /\ StyleRead = readStyle(Parent("Style", WithoutMalformed(arg)))[1]
        /\ LastIsMalformed(arg, "PolyStyle") => StyleRead.fill.color = DEFAULT_COLOR
        /\ LastIsMalformed(arg, "LineStyle") => StyleRead.stroke.color = DEFAULT_COLOR
        /\ LastIsMalformed(arg, "LabelStyle") => StyleRead.text.fill.color = DEFAULT_COLOR

\* a placemark whose poly style has the colour text not-a-color and whose line
\* style has a colour of the grammar, read with the default fill colour and
\* the stroke colour of the document
MalformedColourRecoveryWitness ==
    /\ stage = "styleRead"
    /\ arg = <<Parent("PolyStyle", <<Leaf("color", NotAColor)>>),
               Parent("LineStyle", <<Leaf("color", Red)>>)>>
    /\ StyleRead.fill.color = DEFAULT_COLOR
    /\ StyleRead.stroke.color = <<Num(255), Num(0), Num(0), Num(1)>>

(***************************************************************************)
(* writeFeaturesNode under test on one feature with a geometry of each of  *)
(* the eight types, the collections with up to MaxMembers members.         *)
(***************************************************************************)
MaxMembers == 2

TwoPoints == <<Num(1), Num(2), Num(3), Num(4), Num(5), Num(6)>>

\* a geometry of the type with the coordinates, as its constructor makes it
NewGeometry(type, flatCoordinates) ==
    [type |-> type, layout |-> "XYZ", flatCoordinates |-> flatCoordinates,
     properties |-> NoGeometryProperties]

NewMultiLineString ==
    [type |-> "MultiLineString", layout |-> "XYZ", flatCoordinates |-> TwoPoints \o TwoPoints,
     ends |-> <<6, 12>>, properties |-> NoGeometryProperties]

NewMultiPolygon ==
    [type |-> "MultiPolygon", layout |-> "XYZ", flatCoordinates |-> RingA \o RingB \o RingA,
     endss |-> <<<<12, 24>>, <<36>>>>, properties |-> NoGeometryProperties]

\* one geometry of every type that is no collection
SimpleGeometries ==
    { NewGeometry("Point", <<Num(1), Num(2), Num(3)>>),
      NewGeometry("LineString", TwoPoints),
      NewGeometry("LinearRing", RingA),
      PolygonOfRings(<<RingA, RingB>>),
      NewGeometry("MultiPoint", TwoPoints),
      NewMultiLineString,
      NewMultiPolygon }

\* the members of the collections: every type, a collection among them
CollectionMembers ==
    SimpleGeometries
        \cup {GeometryCollection(<<>>),
              GeometryCollection(<<NewGeometry("Point", <<Num(1), Num(2), Num(3)>>)>>)}

EncodeGeometries ==
    SimpleGeometries
        \cup {GeometryCollection(members) :
                members \in UNION {[1..n -> CollectionMembers] : n \in 0..MaxMembers}}

\* new Feature(geometry)
FeatureOfGeometry(geometry) ==
    [id |-> None, properties |-> <<[key |-> <<"geometry">>, value |-> geometry]>>,
     styleFunction |-> None]

InitEncode ==
    /\ CodecIdle
    /\ stage = "geometry" /\ arg \in EncodeGeometries /\ ret = <<>>

\* writeFeaturesNode([feature]) for a feature with the geometry
EncodeFeature ==
    /\ stage = "geometry"
    /\ stage' = "encoded"
    /\ ret' = writeFeaturesNode(<<FeatureOfGeometry(arg)>>, writeStyles_, sharedStyles_)
    /\ UNCHANGED arg /\ CodecUnchanged

NextEncode == EncodeFeature

SpecEncode == InitEncode /\ [][NextEncode]_vars

\* the element written for the geometry: the child of the Placemark
GeometryWritten == ret.kids[1].kids[1]

\* the element the members are written as
MemberElements(geometry) ==
    [i \in DOMAIN MembersOf(geometry) |-> MemberNodeName(geometry.type, MembersOf(geometry)[i])]

\* the elements of the tags, in order
HasTags(nodes, tags) ==
    /\ Len(nodes) = Len(tags)
    /\ \A i \in DOMAIN nodes : nodes[i].tag = tags[i]

\* the geometry is written as the element of its type, its members as those
\* of theirs
WrittenByType(geometry) ==
    /\ ~Throws(ret)
    /\ GeometryWritten.tag = GEOMETRY_TYPE_TO_NODENAME(geometry.type)
    /\ GeometryWritten.tag = "MultiGeometry" =>
            HasTags(GeometryWritten.kids, MemberElements(geometry))

\* C12: Encoding never fails on valid domain objects.  For a feature whose
\* geometry is of one of the eight types, a GeometryCollection of members of
\* any of them among these, writing ends without an error, and every member is
\* written as the element of its own type.
EncodingNeverFails ==
    stage = "encoded" => WrittenByType(arg)

\* the members of the collection are all of the types Point, LineString and
\* Polygon
PrimitiveMembersOnly(geometry) ==
    geometry.type = "GeometryCollection" =>
        \A i \in DOMAIN geometry.geometries :
            geometry.geometries[i].type \in {"Point", "LineString", "Polygon"}

\* writing ends without an error for the geometries that are no collection
\* and for the collections of points, line strings and polygons
EncodingOfPrimitiveMembers ==
    (stage = "encoded" /\ PrimitiveMembersOnly(arg)) => WrittenByType(arg)

\* writing throws for every collection with a member of another type
EncodingOfOtherMembers ==
    (stage = "encoded" /\ ~PrimitiveMembersOnly(arg)) => ret = TypeError

(***************************************************************************)
(* writeFeaturesNode under test on arrays of up to MaxFeatures features.   *)
(***************************************************************************)
MaxFeatures == 3

\* new Feature({geometry, name}) and setId(id)
NamedFeature(id, name, geometry) ==
    [id |-> id,
     properties |-> <<[key |-> <<"geometry">>, value |-> geometry],
                      [key |-> <<"name">>, value |-> String(name)]>>,
     styleFunction |-> None]

EnvelopeFeatures ==
    { NamedFeature(Some(<<"1">>), <<"A">>, NewGeometry("Point", <<Num(1), Num(2), Num(3)>>)),
      NamedFeature(Some(<<"2">>), <<"B">>, NewGeometry("LineString", TwoPoints)),
      NamedFeature(Some(<<"3">>), <<"C">>, Null),
      NamedFeature(None, <<"D">>, PolygonOfRings(<<RingA>>)) }

EnvelopeInputs == UNION {[1..n -> EnvelopeFeatures] : n \in 0..MaxFeatures}

InitEnvelope ==
    /\ CodecIdle
    /\ stage = "features" /\ arg \in EnvelopeInputs /\ ret = <<>>

\* writeFeaturesNode(features)
WriteFeatureArray ==
    /\ stage = "features"
    /\ stage' = "enveloped"
    /\ ret' = writeFeaturesNode(arg, writeStyles_, sharedStyles_)
    /\ UNCHANGED arg /\ CodecUnchanged

NextEnvelope == WriteFeatureArray

SpecEnvelope == InitEnvelope /\ [][NextEnvelope]_vars

\* the element is the Placemark of the feature: its id and its name
IsPlacemarkOf(node, feature) ==
    /\ node.tag = "Placemark"
    /\ node.attributes.id = feature.id
    /\ \E k \in DOMAIN node.kids :
            node.kids[k].tag = "name"
            /\ String(node.kids[k].text) = Get(feature.properties, <<"name">>)

\* C13: Document envelope on encode.  Writing one feature gives a root
\* element with one Placemark child and no Document; writing n > 1 features
\* gives a root element with one Document child that holds the n Placemark
\* elements of the features, in their order; writing no feature gives a root
\* element without children.
DocumentEnvelope ==
    stage = "enveloped" =>
        /\ ret.tag = "kml"
        /\ Len(arg) = 0 => ret.kids = <<>>
        /\ Len(arg) = 1 => Len(ret.kids) = 1 /\ IsPlacemarkOf(ret.kids[1], arg[1])
        /\ Len(arg) > 1 =>
            /\ Len(ret.kids) = 1
            /\ ret.kids[1].tag = "Document"
            /\ Len(ret.kids[1].kids) = Len(arg)
            /\ \A i \in DOMAIN arg : IsPlacemarkOf(ret.kids[1].kids[i], arg[i])

\* three features written: a Document with the three Placemark elements, the
\* features C, A, B in that order
DocumentEnvelopeWitness ==
    /\ stage = "enveloped"
    /\ Len(arg) = 3
    /\ ret.kids[1].tag = "Document"
    /\ [i \in 1..3 |-> ret.kids[1].kids[i].attributes.id]
            = <<Some(<<"3">>), Some(<<"1">>), Some(<<"2">>)>>

(***************************************************************************)
(* Regions and network links.  A descriptor is an object with string keys; *)
(* a number in it is [number |-> n], or [nan |-> TRUE] for NaN.            *)
(***************************************************************************)
\* parseFloat(object[property]) as a property value: NaN when the property is
\* not set
NumberValue(optional) ==
    IF optional = None THEN [nan |-> TRUE] ELSE [number |-> optional[1]]

\* pushParseAndPop({}, parsers, node) where every parser sets a property to
\* the decimal read, altitudeMode to the string read: the children from the
\* i-th on
RECURSIVE ParseDecimals(_, _, _)
ParseDecimals(kids, i, object) ==
    IF i > Len(kids) THEN object
    ELSE ParseDecimals(kids, i + 1,
            IF kids[i].tag = "altitudeMode" /\ "altitudeMode" \in DOMAIN object
            THEN makeObjectPropertySetter(object, "altitudeMode", Some(kids[i].text))
            ELSE IF kids[i].tag \in DOMAIN object
            THEN makeObjectPropertySetter(object, kids[i].tag, readDecimal(kids[i].text))
            ELSE object)

\* the end of latLonAltBoxParser: the extent, the altitude mode and the
\* altitudes are set on the region object
LatLonAltBoxInto(regionObject, object) ==
    Put(Put(Put(Put(regionObject,
        <<"extent">>, Array(<<NumberValue(object.west), NumberValue(object.south),
                              NumberValue(object.east), NumberValue(object.north)>>)),
        <<"altitudeMode">>, IF object.altitudeMode # None THEN String(object.altitudeMode[1])
                            ELSE UndefinedValue),
        <<"minAltitude">>, NumberValue(object.minAltitude)),
        <<"maxAltitude">>, NumberValue(object.maxAltitude))

latLonAltBoxParser(node, regionObject) ==
    LatLonAltBoxInto(regionObject,
        ParseDecimals(node.kids, 1,
            [altitudeMode |-> None, minAltitude |-> None, maxAltitude |-> None,
             north |-> None, south |-> None, east |-> None, west |-> None]))

\* the end of lodParser
LodInto(lodObject, object) ==
    Put(Put(Put(Put(lodObject,
        <<"minLodPixels">>, NumberValue(object.minLodPixels)),
        <<"maxLodPixels">>, NumberValue(object.maxLodPixels)),
        <<"minFadeExtent">>, NumberValue(object.minFadeExtent)),
        <<"maxFadeExtent">>, NumberValue(object.maxFadeExtent))

lodParser(node, lodObject) ==
    LodInto(lodObject,
        ParseDecimals(node.kids, 1,
            [minLodPixels |-> None, maxLodPixels |-> None,
             minFadeExtent |-> None, maxFadeExtent |-> None]))

\* parseNode(REGION_PARSERS, node): the children from the i-th on
RECURSIVE ParseRegion(_, _, _)
ParseRegion(kids, i, object) ==
    IF i > Len(kids) THEN object
    ELSE ParseRegion(kids, i + 1,
            IF kids[i].tag = "LatLonAltBox" THEN latLonAltBoxParser(kids[i], object)
            ELSE IF kids[i].tag = "Lod" THEN lodParser(kids[i], object)
            ELSE object)

regionParser(node, object) == ParseRegion(node.kids, 1, object)

\* linkParser: parseNode(LINK_PARSERS, node), href set to the URI read
RECURSIVE linkParser(_, _, _, _)
linkParser(kids, i, base, object) ==
    IF i > Len(kids) THEN object
    ELSE linkParser(kids, i + 1, base,
            IF kids[i].tag = "href"
            THEN Put(object, <<"href">>, String(readURI(kids[i].text, base)))
            ELSE object)

\* pushParseAndPop({}, NETWORK_LINK_PARSERS, node): the children from the
\* i-th on
RECURSIVE ParseNetworkLink(_, _, _, _)
ParseNetworkLink(kids, i, base, object) ==
    IF i > Len(kids) THEN object
    ELSE ParseNetworkLink(kids, i + 1, base,
            IF kids[i].tag = "ExtendedData" THEN ParseExtendedData(kids[i].kids, 1, object)
            ELSE IF kids[i].tag = "Region" THEN regionParser(kids[i], object)
            ELSE IF kids[i].tag = "Link" THEN linkParser(kids[i].kids, 1, base, object)
            ELSE IF kids[i].tag \in {"address", "description", "name", "phoneNumber"}
            THEN Put(object, <<kids[i].tag>>, String(kids[i].text))
            ELSE IF kids[i].tag \in {"open", "visibility"}
            THEN SetProperty(object, <<kids[i].tag>>, BooleanValue(readBoolean(kids[i].text)))
            ELSE object)

\* the descriptor of a Region or NetworkLink element
DescriptorOf(node, base) ==
    IF node.tag = "Region" THEN regionParser(node, <<>>)
    ELSE ParseNetworkLink(node.kids, 1, base, <<>>)

\* readRegionFromNode (tag Region) and readNetworkLinksFromNode (tag
\* NetworkLink): first the descriptors of the children with the tag, then
\* what the function returns for every kml, Document and Folder child
RECURSIVE OwnDescriptors(_, _, _, _), NestedDescriptors(_, _, _, _)
OwnDescriptors(kids, i, tag, base) ==
    IF i > Len(kids) THEN <<>>
    ELSE (IF kids[i].tag = tag THEN <<DescriptorOf(kids[i], base)>> ELSE <<>>)
         \o OwnDescriptors(kids, i + 1, tag, base)

NestedDescriptors(kids, i, tag, base) ==
    IF i > Len(kids) THEN <<>>
    ELSE (IF kids[i].tag \in {"Document", "Folder", "kml"}
          THEN OwnDescriptors(kids[i].kids, 1, tag, base)
               \o NestedDescriptors(kids[i].kids, 1, tag, base)
          ELSE <<>>)
         \o NestedDescriptors(kids, i + 1, tag, base)

readRegionFromNode(node) ==
    OwnDescriptors(node.kids, 1, "Region", None)
    \o NestedDescriptors(node.kids, 1, "Region", None)

readNetworkLinksFromNode(node, base) ==
    OwnDescriptors(node.kids, 1, "NetworkLink", base)
    \o NestedDescriptors(node.kids, 1, "NetworkLink", base)

(***************************************************************************)
(* readRegionFromNode and readNetworkLinksFromNode under test on Document  *)
(* elements of up to MaxTreeChildren children.                             *)
(***************************************************************************)
MaxTreeChildren == 3

\* a Region whose box has the north, and a NetworkLink with the name
RegionElement(north) ==
    Parent("Region",
        <<Parent("LatLonAltBox", <<Leaf("north", <<north>>), Leaf("south", <<"0">>)>>),
          Parent("Lod", <<Leaf("minLodPixels", <<"8">>)>>)>>)

NetworkLinkElement(name, kids) ==
    Parent("NetworkLink",
        <<Leaf("name", <<name>>), Parent("Link", <<Leaf("href", <<"x", ".", "k", "m", "l">>)>>)>>
        \o kids)

\* the children of the Document: regions and network links, on their own, in
\* folders and in a placemark
TreeChildren ==
    { RegionElement("1"),
      NetworkLinkElement("A", <<RegionElement("2")>>),
      Parent("Placemark", <<Leaf("name", <<"P">>), RegionElement("3")>>),
      Parent("Folder", <<RegionElement("4"), NetworkLinkElement("B", <<>>)>>),
      Parent("Folder", <<Parent("Folder", <<RegionElement("5")>>),
                         NetworkLinkElement("C", <<>>), RegionElement("6")>>),
      Leaf("Snippet", <<>>) }

TreeInputs ==
    {Parent("Document", kids) :
        kids \in UNION {[1..n -> TreeChildren] : n \in 0..MaxTreeChildren}}

InitTree ==
    /\ CodecIdle
    /\ stage = "tree" /\ arg \in TreeInputs /\ ret = <<>>

\* readRegionFromNode(node)
ReadRegion ==
    /\ stage = "tree"
    /\ stage' = "regionsRead"
    /\ ret' = readRegionFromNode(arg)
    /\ UNCHANGED arg /\ CodecUnchanged

\* readNetworkLinksFromNode(node)
ReadNetworkLinks ==
    /\ stage = "tree"
    /\ stage' = "linksRead"
    /\ ret' = readNetworkLinksFromNode(arg, baseURI)
    /\ UNCHANGED arg /\ CodecUnchanged

NextTree == ReadRegion \/ ReadNetworkLinks

SpecTree == InitTree /\ [][NextTree]_vars

\* the elements with the tag in the tree below the node, in pre-order
RECURSIVE ElementsBelow(_, _, _)
ElementsBelow(kids, i, tag) ==
    IF i > Len(kids) THEN <<>>
    ELSE (IF kids[i].tag = tag THEN <<kids[i]>> ELSE <<>>)
         \o ElementsBelow(kids[i].kids, 1, tag)
         \o ElementsBelow(kids, i + 1, tag)

\* the descriptors of the elements
DescriptorsOf(elements) ==
    [i \in DOMAIN elements |-> DescriptorOf(elements[i], baseURI)]

\* C14: reading regions returns one descriptor for every Region element of
\* the document tree, none missed, in pre-order; reading network links
\* returns one for every NetworkLink element, in pre-order.
DescriptorsOfWholeTree ==
    /\ stage = "regionsRead" => ret = DescriptorsOf(ElementsBelow(arg.kids, 1, "Region"))
    /\ stage = "linksRead" => ret = DescriptorsOf(ElementsBelow(arg.kids, 1, "NetworkLink"))

\* the elements with the tag that are children of the node or of a kml,
\* Document or Folder element reached from it through such elements
RECURSIVE ElementsOfContainers(_, _, _)
ElementsOfContainers(kids, i, tag) ==
    IF i > Len(kids) THEN <<>>
    ELSE (IF kids[i].tag = tag THEN <<kids[i]>>
          ELSE IF kids[i].tag \in {"Document", "Folder", "kml"}
          THEN ElementsOfContainers(kids[i].kids, 1, tag)
          ELSE <<>>)
         \o ElementsOfContainers(kids, i + 1, tag)

\* the descriptors returned are those of the elements that the containers
\* hold, each once, in some order; a Region in a Placemark or a NetworkLink is
\* not among them
DescriptorsOfContainers ==
    /\ stage = "regionsRead" =>
        /\ Len(ret) = Len(ElementsOfContainers(arg.kids, 1, "Region"))
        /\ Range(ret) = Range(DescriptorsOf(ElementsOfContainers(arg.kids, 1, "Region")))
    /\ stage = "linksRead" =>
        /\ Len(ret) = Len(ElementsOfContainers(arg.kids, 1, "NetworkLink"))
        /\ Range(ret) = Range(DescriptorsOf(ElementsOfContainers(arg.kids, 1, "NetworkLink")))

(***************************************************************************)
(* The codec instance made with extractStyles false.                       *)
(***************************************************************************)
\* no feature read so far has a style
NoFeatureStyled ==
    /\ \A i \in DOMAIN features : features[i].feature.styleFunction = None
    /\ \A i \in DOMAIN acc : acc[i].feature.styleFunction = None

\* C15: with extractStyles false no style is decoded: no feature returned has
\* a style set, and the registry of shared styles, empty when the instance is
\* made, is after every decode call what it was before it, whatever Style and
\* StyleMap elements the documents hold.
NoStyleDecoding ==
    ~extractStyles_ => NoFeatureStyled /\ sharedStyles_ = <<>>

\* with extractStyles false no feature has a style set
NoStyleSet ==
    ~extractStyles_ => NoFeatureStyled

\* the registry holds the shared styles of the documents read whether styles
\* are extracted or not
RegistryFilledAnyway ==
    \A c \in DOMAIN calls :
        \A k \in Keys(calls[c].registered) : c < Len(calls) \/ pc = "idle" =>
            Has(sharedStyles_, k)

(***************************************************************************)
(* One decode call on a Document of up to MaxOrderChildren children:       *)
(* styles, style maps, placemarks and folders in every order.              *)
(***************************************************************************)
MaxOrderChildren == 3

StyledPoint(name, styleUrl) ==
    Parent("Placemark",
        <<Leaf("name", <<name>>), PointElement(OnePosition), Leaf("styleUrl", styleUrl)>>)

OrderChildren ==
    { StyleElement(WithId(<<"c">>), Red),
      StyleMapElement(<<"m">>, <<"#", "c">>),
      StyledPoint("Y", <<"#", "c">>),
      Parent("Folder", <<StyledPoint("X", <<"#", "d">>), StyleElement(WithId(<<"d">>), Green)>>),
      Parent("Folder", <<Parent("Folder", <<StyledPoint("Z", <<"#", "m">>)>>)>>) }

OrderDocuments ==
    {Parent("Document", kids) :
        kids \in UNION {[1..n -> OrderChildren] : n \in 0..MaxOrderChildren}}

InitOrder ==
    /\ defaultStyle_ = DEFAULT_STYLE_ARRAY
    /\ extractStyles_ = TRUE /\ writeStyles_ = TRUE /\ showPointNames_ = TRUE
    /\ sharedStyles_ = <<>>
    /\ pc = "idle" /\ baseURI \in {None, Some(DocumentBase)}
    /\ todo = <<>> /\ acc = <<>>
    /\ features = <<>> /\ lastStyle = <<>> /\ calls = <<>>
    /\ stage = "document" /\ arg \in OrderDocuments /\ ret = <<>>

\* readFeaturesFromNode on the document, once
ReadOrderDocument ==
    /\ calls = <<>>
    /\ ReadFeaturesFromNode(arg)

NextOrder ==
    \/ ReadOrderDocument
    \/ ReadDocumentOrFolder
    \/ ReadSharedStyle
    \/ ReadSharedStyleMap
    \/ ReadPlacemark
    \/ ReturnFeatures

SpecOrder == InitOrder /\ [][NextOrder]_vars

\* the call has returned
Returned == pc = "idle" /\ calls # <<>>

\* the elements the features returned were read from
FeatureNodes == [i \in DOMAIN features |-> features[i].node]

\* the placemarks of a container with its own before those of its nested
\* containers
RECURSIVE OwnPlacemarksFirst(_)
RECURSIVE NestedPlacemarks(_, _)
OwnPlacemarksFirst(container) ==
    SelectSeq(container.kids, LAMBDA kid : kid.tag = "Placemark")
    \o NestedPlacemarks(container.kids, 1)

NestedPlacemarks(kids, i) ==
    IF i > Len(kids) THEN <<>>
    ELSE (IF kids[i].tag \in {"Document", "Folder"} THEN OwnPlacemarksFirst(kids[i])
          ELSE <<>>)
         \o NestedPlacemarks(kids, i + 1)

\* the keys of the Style and StyleMap children of the container
OwnStyleKeys(container) ==
    {StyleUri(container.kids[k].attributes.id[1], baseURI) :
        k \in {j \in DOMAIN container.kids : container.kids[j].tag \in {"Style", "StyleMap"}}}

\* every placemark of the container, and of the containers in it, was read
\* when the registry held the styles its container holds
RECURSIVE OwnStylesKnown(_)
OwnStylesKnown(container) ==
    /\ \A i \in DOMAIN features :
            (\E k \in DOMAIN container.kids : container.kids[k] = features[i].node)
                => OwnStyleKeys(container) \subseteq features[i].known
    /\ \A k \in DOMAIN container.kids :
            container.kids[k].tag \in {"Document", "Folder"} => OwnStylesKnown(container.kids[k])

RECURSIVE Traverse(_, _, _)
Traverse(kids, i, state) ==
    IF i > Len(kids) THEN state
    ELSE Traverse(kids, i + 1,
            IF kids[i].tag = "Placemark"
            THEN [state EXCEPT !.out = Append(@, [node |-> kids[i], known |-> state.seen])]
            ELSE IF kids[i].tag \in {"Style", "StyleMap"}
            THEN [state EXCEPT !.seen = @ \cup {StyleUri(kids[i].attributes.id[1], baseURI)}]
            ELSE IF kids[i].tag \in {"Document", "Folder"}
            THEN Traverse(kids[i].kids, 1, state)
            ELSE state)

InDocumentOrder == Traverse(arg.kids, 1, [seen |-> {}, out |-> <<>>]).out

MaxBoundaries == 3

BoundaryElement(tag, text) == Parent(tag, <<LinearRingElement(text)>>)

\* boundaries whose rings differ, two of them with no coordinate tuple at
\* all and one with a text that is no coordinate list
Boundaries ==
    { BoundaryElement("outerBoundaryIs", OnePosition),
      BoundaryElement("outerBoundaryIs", TwoPositions),
      BoundaryElement("outerBoundaryIs", <<>>),
      BoundaryElement("outerBoundaryIs", <<"x">>),
      BoundaryElement("innerBoundaryIs", OnePositionXYZ),
      BoundaryElement("innerBoundaryIs", ClosedRing),
      BoundaryElement("innerBoundaryIs", <<>>) }

BoundaryInputs == UNION {[1..n -> Boundaries] : n \in 0..MaxBoundaries}

InitRings ==
    /\ CodecIdle
    /\ stage = "rings" /\ arg \in BoundaryInputs /\ ret = <<>>

\* readPolygon(node) on the Polygon element of the boundaries
ReadPolygonElement ==
    /\ stage = "rings"
    /\ stage' = "ringsRead"
    /\ ret' = readPolygon(Parent("Polygon", arg))
    /\ UNCHANGED arg /\ CodecUnchanged

NextRings == ReadPolygonElement

SpecRings == InitRings /\ [][NextRings]_vars

\* the ring of the boundary element: the coordinates of its LinearRing
RingOf(boundary) == readFlatCoordinates(boundary.kids[1].kids[1].text)

\* the outer boundaries whose ring reads as coordinates, by position
OuterRead == {i \in DOMAIN arg : arg[i].tag = "outerBoundaryIs" /\ RingOf(arg[i]) # Undefined}

\* the rings of the inner boundaries, in document order
InnerRings ==
    SelectSeq([i \in DOMAIN arg |-> [tag |-> arg[i].tag, flatCoordinates |-> RingOf(arg[i])]],
              LAMBDA ring : ring.tag = "innerBoundaryIs" /\ ring.flatCoordinates # Undefined)

\* the polygon read has the ring of the outer boundary at the position as
\* ring 0, the inner rings after it, and the running lengths as ends
RingsFrom(outer) ==
    /\ ret # None
    /\ ret[1].flatCoordinates = RingOf(arg[outer]) \o FlatOfAll(InnerRings)
    /\ ret[1].ends = <<Len(RingOf(arg[outer]))>> \o EndsOfAll(InnerRings, Len(RingOf(arg[outer])))

\* C17, as stated: ring 0 of the Polygon read is the ring of the first outer
\* boundary of the element, also when there are several; the inner rings
\* follow it in document order, wherever they stand; the ends are the running
\* lengths of the coordinates.
FirstOuterRingFirst ==
    (stage = "ringsRead" /\ OuterRead # {}) =>
        RingsFrom(CHOOSE i \in OuterRead : \A j \in OuterRead : i <= j)

\* C17, as the code has it: ring 0 is the ring of the last outer boundary.
LastOuterRingFirst ==
    (stage = "ringsRead" /\ OuterRead # {}) =>
        RingsFrom(CHOOSE i \in OuterRead : \A j \in OuterRead : j <= i)

\* an inner boundary, then two outer boundaries: the ring of the second outer
\* boundary is ring 0, the inner ring follows
LastOuterRingFirstWitness ==
    /\ stage = "ringsRead"
    /\ arg = <<BoundaryElement("innerBoundaryIs", OnePositionXYZ),
               BoundaryElement("outerBoundaryIs", OnePosition),
               BoundaryElement("outerBoundaryIs", TwoPositions)>>
    /\ ret[1].flatCoordinates
        = <<Num(1), Num(2), Num(0), Num(3), Num(4), Num(0), Num(3), Num(4), Num(5)>>
    /\ ret[1].ends = <<6, 9>>

\* C18: Geometry invariant on decode.  Every Polygon read, rings without any
\* coordinate among its rings, has flat coordinates whose length is a multiple
\* of the stride, ends that increase strictly, and a last end that is the
\* length of the flat coordinates.
PolygonInvariant ==
    (stage = "ringsRead" /\ ret # None) =>
        /\ Len(ret[1].flatCoordinates) % Stride(ret[1].layout) = 0
        /\ \A i \in 1..(Len(ret[1].ends) - 1) : ret[1].ends[i] < ret[1].ends[i + 1]
        /\ ret[1].ends[Len(ret[1].ends)] = Len(ret[1].flatCoordinates)

\* the same with ends that never decrease
PolygonInvariantNonDecreasing ==
    (stage = "ringsRead" /\ ret # None) =>
        /\ Len(ret[1].flatCoordinates) % Stride(ret[1].layout) = 0
        /\ \A i \in 1..(Len(ret[1].ends) - 1) : ret[1].ends[i] <= ret[1].ends[i + 1]
        /\ ret[1].ends[Len(ret[1].ends)] = Len(ret[1].flatCoordinates)

(***************************************************************************)
(* Tracks.  A track object is [flatCoordinates, whens]; a slot of an array *)
(* that was never assigned reads as UndefinedValue.                        *)
(***************************************************************************)
\* [+\-]?\d+(?:\.\d*)?(?:e[+\-]?\d*)? at s[i]: the index after the match, 0
\* if there is none
GxFractionEnd(s, p) ==
    IF p <= Len(s) /\ s[p] = "." THEN p + 1 + DigitRun(s, p + 1) ELSE p

GxExponentEnd(s, q) ==
    IF q <= Len(s) /\ s[q] \in {"e", "E"}
    THEN SkipSign(s, q + 1) + DigitRun(s, SkipSign(s, q + 1)) ELSE q

GxNumEnd(s, i) ==
    IF DigitRun(s, SkipSign(s, i)) = 0 THEN 0
    ELSE GxExponentEnd(s, GxFractionEnd(s, SkipSign(s, i) + DigitRun(s, SkipSign(s, i))))

\* the groups of the pattern of gxCoordParser from s[from] on, k numbers with
\* \s+ between them and \s*$ after the last: <<start, end>> of each, <<>>
\* when the text does not match
RECURSIVE GxGroups(_, _, _)
GxGroups(s, from, k) ==
    IF GxNumEnd(s, from) = 0 THEN <<>>
    ELSE IF k = 1
    THEN (IF GxNumEnd(s, from) + SpaceRun(s, GxNumEnd(s, from)) = Len(s) + 1
          THEN <<<<from, GxNumEnd(s, from)>>>> ELSE <<>>)
    ELSE IF SpaceRun(s, GxNumEnd(s, from)) = 0 THEN <<>>
    ELSE IF GxGroups(s, GxNumEnd(s, from) + SpaceRun(s, GxNumEnd(s, from)), k - 1) = <<>>
    THEN <<>>
    ELSE <<<<from, GxNumEnd(s, from)>>>>
         \o GxGroups(s, GxNumEnd(s, from) + SpaceRun(s, GxNumEnd(s, from)), k - 1)

\* what gxCoordParser pushes for the text: x, y, z, 0 of a match, four zeros
\* otherwise
GxCoord(s, m) ==
    IF m # <<>>
    THEN <<GroupValue(s, m[1]), GroupValue(s, m[2]), GroupValue(s, m[3]), Num(0)>>
    ELSE <<Num(0), Num(0), Num(0), Num(0)>>

gxCoordParser(s, gxTrackObject) ==
    [gxTrackObject EXCEPT
        !.flatCoordinates = @ \o GxCoord(s, GxGroups(s, SpaceRun(s, 1) + 1, 3))]

\* the day number of the first day of the year, day 0 being 1 January 1970
DayFromYear(y) ==
    365 * (y - 1970) + ((y - 1969) \div 4) - ((y - 1901) \div 100) + ((y - 1601) \div 400)

\* Date.parse on the texts of the model: a text of four digits is a year and
\* gives the milliseconds from 1970 to its start (86400000 a day), any other
\* text is no date
IsYear(s) == Len(s) = 4 /\ DigitRun(s, 1) = 4

DateParse(s) == IF IsYear(s) THEN Norm(DayFromYear(DigitsToNat(s)) * 864, 5) ELSE NaN

\* whenParser: the time of the text, 0 when it is no date
whenParser(s, gxTrackObject) ==
    [gxTrackObject EXCEPT
        !.whens = Append(@, IF ~IsYear(s) THEN Num(0) ELSE DateParse(s))]

\* pushParseAndPop(gxTrackObject, GX_TRACK_PARSERS, node)
RECURSIVE ParseGxTrack(_, _, _)
ParseGxTrack(kids, i, gxTrackObject) ==
    IF i > Len(kids) THEN gxTrackObject
    ELSE ParseGxTrack(kids, i + 1,
            IF kids[i].tag = "when" THEN whenParser(kids[i].text, gxTrackObject)
            ELSE IF kids[i].tag = "gx:coord" THEN gxCoordParser(kids[i].text, gxTrackObject)
            ELSE gxTrackObject)

\* array[index] = value on a JavaScript array, index counted from 0: an
\* index past the end lengthens the array, the slots between stay unassigned
SetSlot(array, index, value) ==
    [j \in 1..(IF index + 1 > Len(array) THEN index + 1 ELSE Len(array)) |->
        IF j = index + 1 THEN value
        ELSE IF j <= Len(array) THEN array[j]
        ELSE UndefinedValue]

\* the loop of readGxTrack from i on, ii its bound
RECURSIVE StampWhens(_, _, _, _)
StampWhens(flatCoordinates, whens, i, ii) ==
    IF i >= ii THEN flatCoordinates
    ELSE StampWhens(SetSlot(flatCoordinates, 4 * i + 3, whens[i + 1]), whens, i + 1, ii)

\* the loop up to Math.min(flatCoordinates.length, whens.length) and
\* setFlatCoordinates(XYZM, flatCoordinates) on a new LineString
TrackOf(gxTrackObject) ==
    [type |-> "LineString", layout |-> "XYZM",
     flatCoordinates |->
        StampWhens(gxTrackObject.flatCoordinates, gxTrackObject.whens, 0,
                   IF Len(gxTrackObject.flatCoordinates) < Len(gxTrackObject.whens)
                   THEN Len(gxTrackObject.flatCoordinates)
                   ELSE Len(gxTrackObject.whens))]

readGxTrack(node) ==
    Some(TrackOf(ParseGxTrack(node.kids, 1, [flatCoordinates |-> <<>>, whens |-> <<>>])))

(***************************************************************************)
(* readGxTrack under test on tracks of up to MaxTrackChildren when and     *)
(* gx:coord elements in every order.                                       *)
(***************************************************************************)
MaxTrackChildren == 4

TrackChildren ==
    { Leaf("when", <<"1", "9", "7", "1">>),
      Leaf("when", <<"1", "9", "7", "3">>),
      Leaf("when", <<"x">>),
      Leaf("gx:coord", <<"1", " ", "2", ".", " ", "3", "e", "1">>),
      Leaf("gx:coord", <<"1", ",", "2", ",", "3">>) }

TrackInputs == UNION {[1..n -> TrackChildren] : n \in 0..MaxTrackChildren}

InitTrack ==
    /\ CodecIdle
    /\ stage = "track" /\ arg \in TrackInputs /\ ret = <<>>

ReadGxTrack ==
    /\ stage = "track"
    /\ stage' = "trackRead"
    /\ ret' = readGxTrack(Parent("gx:Track", arg))
    /\ UNCHANGED arg /\ CodecUnchanged

NextTrack == ReadGxTrack

SpecTrack == InitTrack /\ [][NextTrack]_vars

\* the timestamp and the position elements of the track, in document order
WhensOf(kids) == SelectSeq(kids, LAMBDA kid : kid.tag = "when")

CoordsOf(kids) == SelectSeq(kids, LAMBDA kid : kid.tag = "gx:coord")

Shorter(n, m) == IF n < m THEN n ELSE m

\* vertex i (from 1) of the flat coordinates is the i-th position of the
\* track with the time of the i-th timestamp, 0 if that is no date
ZippedVertex(flatCoordinates, i) ==
    /\ SubSeq(flatCoordinates, 4 * i - 3, 4 * i - 1)
        = SubSeq(GxCoord(CoordsOf(arg)[i].text,
                         GxGroups(CoordsOf(arg)[i].text, SpaceRun(CoordsOf(arg)[i].text, 1) + 1, 3)),
                 1, 3)
    /\ flatCoordinates[4 * i]
        = (IF WhensOf(arg)[i].text = <<"1", "9", "7", "1">> THEN Norm(31536, 6)
           ELSE IF WhensOf(arg)[i].text = <<"1", "9", "7", "3">> THEN Norm(946944, 5)
           ELSE Num(0))

\* C19: Track decode.  Of n timestamps and m positions the LineString read
\* has layout XYZM and exactly min(n, m) vertices, vertex i with the i-th
\* position and the i-th timestamp in milliseconds, 0 if it is no date; the
\* entries of the longer sequence past min(n, m) leave nothing.
TrackZipsToShorter ==
    stage = "trackRead" =>
        /\ ret # None
        /\ ret[1].layout = "XYZM"
        /\ Len(ret[1].flatCoordinates) = 4 * Shorter(Len(WhensOf(arg)), Len(CoordsOf(arg)))
        /\ \A i \in 1..Shorter(Len(WhensOf(arg)), Len(CoordsOf(arg))) :
                ZippedVertex(ret[1].flatCoordinates, i)

\* what does hold: the first min(n, m) vertices are zipped, and every
\* position is kept
TrackZipsFirstVertices ==
    stage = "trackRead" =>
        /\ ret # None
        /\ ret[1].layout = "XYZM"
        /\ Len(ret[1].flatCoordinates) >= 4 * Len(CoordsOf(arg))
        /\ \A i \in 1..Shorter(Len(WhensOf(arg)), Len(CoordsOf(arg))) :
                ZippedVertex(ret[1].flatCoordinates, i)

\* more timestamps than positions: vertices past the positions, their
\* coordinates unassigned
TrackOfUnassignedSlots ==
    /\ stage = "trackRead"
    /\ Len(WhensOf(arg)) = 2 /\ Len(CoordsOf(arg)) = 1
    /\ Len(ret[1].flatCoordinates) = 8
    /\ ret[1].flatCoordinates[5] = UndefinedValue

(***************************************************************************)
(* Style lookup under test on documents of up to MaxMapChildren style      *)
(* maps, styles and placemarks, the style maps leading to a style, to each *)
(* other or to themselves.                                                 *)
(***************************************************************************)
MaxMapChildren == 4

MapChildren ==
    { StyleMapElement(<<"m">>, <<"#", "m">>),
      StyleMapElement(<<"m">>, <<"#", "n">>),
      StyleMapElement(<<"n">>, <<"#", "m">>),
      StyleMapElement(<<"n">>, <<"#", "c">>),
      StyleElement(WithId(<<"c">>), Red),
      StyledPoint("Y", <<"#", "m">>) }

MapDocuments ==
    {Parent("Document", kids) :
        kids \in UNION {[1..n -> MapChildren] : n \in 0..MaxMapChildren}}

InitMaps ==
    /\ defaultStyle_ = DEFAULT_STYLE_ARRAY
    /\ extractStyles_ = TRUE /\ writeStyles_ = TRUE /\ showPointNames_ = FALSE
    /\ sharedStyles_ = <<>>
    /\ pc = "idle" /\ baseURI \in {None, Some(DocumentBase)}
    /\ todo = <<>> /\ acc = <<>>
    /\ features = <<>> /\ lastStyle = <<>> /\ calls = <<>>
    /\ stage = "document" /\ arg \in MapDocuments /\ ret = <<>>

NextMaps ==
    \/ ReadOrderDocument
    \/ ReadDocumentOrFolder
    \/ ReadSharedStyleMap
    \/ ReadSharedStyle
    \/ ReadPlacemark
    \/ ReturnFeatures
    \/ \E i \in DOMAIN features : RequestStyle(i)

SpecMaps == InitMaps /\ [][NextMaps]_vars

\* the registry leads from the key through style maps back to the key
RECURSIVE LeadsBack(_, _, _)
LeadsBack(key, goal, steps) ==
    /\ steps > 0
    /\ Has(sharedStyles_, key)
    /\ IsString(Get(sharedStyles_, key))
    /\ \/ RetryKey(Get(sharedStyles_, key).string, sharedStyles_) = goal
       \/ LeadsBack(RetryKey(Get(sharedStyles_, key).string, sharedStyles_), goal, steps - 1)

\* C20: Style lookup terminates.  Whatever the registry holds, style maps
\* whose normal entry leads to another style map or back to itself included,
\* the style requested for a feature is a style array or the default style.
StyleLookupTerminates ==
    lastStyle # <<>> => lastStyle[1].style # RangeError

\* the lookups that come to an end: those from which no style map leads back
\* to a key on the way
StyleLookupWithoutCycle ==
    (/\ lastStyle # <<>>
     /\ \A key \in Keys(sharedStyles_) :
            ~LeadsBack(key, key, MaxMapChildren))
        => lastStyle[1].style # RangeError

\* a style requested through two style maps that lead to a style
StyleLookupThroughMaps ==
    /\ lastStyle # <<>>
    /\ Len(sharedStyles_) = 3
    /\ lastStyle[1].style # RangeError
    /\ lastStyle[1].style # DEFAULT_STYLE_ARRAY

(***************************************************************************)
(* Multi-geometries nested in multi-geometries, under SpecGeom.            *)
(***************************************************************************)
\* the children of the element that are read: every child but the Point
\* whose coordinates are no coordinates
ChildrenRead == ParseMultiGeometry(arg.kids, 1)

HasNestedMultiGeometry == \E i \in DOMAIN arg.kids : arg.kids[i].tag = "MultiGeometry"

\* C21: Nested multi-geometries do not trigger the fatal assertion.  A
\* multi-geometry element of Point, LineString, LinearRing, Polygon and
\* multi-geometry elements is read without the assertion of an unknown
\* geometry type, and with a multi-geometry among its children it is read as
\* a GeometryCollection that holds what the child was read as.
NestedMultiGeometryDecodes ==
    stage = "multiRead" =>
        /\ ~IsThrown(ret[1])
        /\ HasNestedMultiGeometry =>
              /\ ret[1].type = "GeometryCollection"
              /\ ret[1].geometries = ChildrenRead

\* what does hold: the assertion fails exactly when all the children read
\* are of one multi type, which only nested multi-geometries are read as
NestedMultiGeometryAssertion ==
    stage = "multiRead" =>
        (IsThrown(ret[1]) <=>
            /\ ChildrenRead # <<>>
            /\ ChildrenRead[1].type \in {"MultiPoint", "MultiLineString", "MultiPolygon"}
            /\ \A i \in DOMAIN ChildrenRead : ChildrenRead[i].type = ChildrenRead[1].type)

\* and a nested multi-geometry next to a child of another type is a member
\* of the collection
NestedMultiGeometryMember ==
    (/\ stage = "multiRead"
     /\ HasNestedMultiGeometry
     /\ \E i \in DOMAIN ChildrenRead : ChildrenRead[i].type # ChildrenRead[1].type)
        => /\ ret[1].type = "GeometryCollection"
           /\ ret[1].geometries = ChildrenRead

(***************************************************************************)
(* readStyle under test on Style elements with at most one IconStyle of up *)
(* to MaxIconStyleChildren children.                                       *)
(***************************************************************************)
MaxIconStyleChildren == 2

IconElements ==
    { Parent("Icon", <<>>),
      Parent("Icon", <<Leaf("href", <<"i.png">>)>>),
      Parent("Icon", <<Leaf("href", <<"http://maps.google.com/", "i.png">>)>>),
      Parent("Icon", <<Leaf("href", <<" ">>)>>),
      Parent("Icon", <<Leaf("gx:w", <<"3", "2">>), Leaf("gx:h", <<"1", "6">>)>>),
      Parent("Icon", <<Leaf("gx:x", <<"x">>)>>),
      Parent("Icon", <<Leaf("refreshMode", <<"onChange">>)>>) }

IconStyleChildren ==
    IconElements
    \cup { Leaf("scale", <<"2">>),
           Leaf("heading", <<"9", "0">>),
           Leaf("color", Red),
           Element("hotSpot",
                   HotSpotAttributes(Some(<<"1">>), Some(<<"2">>), Some("pixels"), Some("fraction")),
                   <<>>, <<>>) }

\* a Style without an IconStyle, and the Styles of one IconStyle
IconStyleInputs ==
    {Parent("Style", <<Parent("LineStyle", <<>>)>>)}
    \cup {Parent("Style", <<Parent("IconStyle", kids)>>) :
            kids \in UNION {[1..n -> IconStyleChildren] : n \in 0..MaxIconStyleChildren}}

InitIcon ==
    /\ CodecIdle
    /\ stage = "style" /\ arg \in IconStyleInputs /\ ret = <<>>

\* readStyle(node) on the Style element
ReadStyleElement ==
    /\ stage = "style"
    /\ stage' = "styleElementRead"
    /\ ret' = readStyle(arg)
    /\ UNCHANGED arg /\ CodecUnchanged

NextIcon == ReadStyleElement

SpecIcon == InitIcon /\ [][NextIcon]_vars

\* the Icon elements of the IconStyle of the Style, in document order
IconsOf(style) ==
    IF style.kids[1].tag = "IconStyle"
    THEN SelectSeq(style.kids[1].kids, LAMBDA kid : kid.tag = "Icon")
    ELSE <<>>

HasIconStyle(style) == style.kids[1].tag = "IconStyle"

LastIcon(style) == IconsOf(style)[Len(IconsOf(style))]

\* the Icon element has an href child whose text is not empty
GivesHref(icon) ==
    \E i \in DOMAIN icon.kids : icon.kids[i].tag = "href" /\ Trim(icon.kids[i].text) # <<>>

\* the image is the default pushpin: the default source, the anchor [20, 2]
\* in pixels, the size 64 by 64 and the scale 0.5
IsDefaultPushpin(image) ==
    \/ image = DEFAULT_IMAGE_STYLE
    \/ /\ image # Null
       /\ image.src = Some(DEFAULT_IMAGE_STYLE_SRC)
       /\ image.anchor = Some(DEFAULT_IMAGE_STYLE_ANCHOR)
       /\ image.anchorXUnits = Some("pixels") /\ image.anchorYUnits = Some("pixels")
       /\ image.size = Some(DEFAULT_IMAGE_STYLE_SIZE)
       /\ image.scale = Norm(5, -1)

\* the same but for the anchor and the scale, which the IconStyle may give
IsDefaultPushpinSource(image) ==
    \/ image = DEFAULT_IMAGE_STYLE
    \/ /\ image # Null
       /\ image.src = Some(DEFAULT_IMAGE_STYLE_SRC)
       /\ image.size = Some(DEFAULT_IMAGE_STYLE_SIZE)

\* the IconStyle gives neither a scale nor a hot spot
PlainIconStyle(style) ==
    \A i \in DOMAIN style.kids[1].kids : style.kids[1].kids[i].tag \notin {"scale", "hotSpot"}

IconWithoutHrefDrawn ==
    /\ stage = "styleElementRead"
    /\ IconsOf(arg) # <<>> /\ ~GivesHref(LastIcon(arg))
    /\ ret[1].image # Null

(***************************************************************************)
(* readStyle under test on Style elements of up to MaxCompositeChildren    *)
(* PolyStyle, LineStyle and LabelStyle elements, with and without flags.   *)
(***************************************************************************)
MaxCompositeChildren == 2

CompositeChildren ==
    { Parent("PolyStyle", <<>>),
      Parent("PolyStyle", <<Leaf("color", Red)>>),
      Parent("PolyStyle", <<Leaf("fill", <<"0">>)>>),
      Parent("PolyStyle", <<Leaf("fill", <<"1">>)>>),
      Parent("PolyStyle", <<Leaf("outline", <<"0">>)>>),
      Parent("PolyStyle", <<Leaf("outline", <<"f", "a", "l", "s", "e">>),
                            Leaf("fill", <<"t", "r", "u", "e">>)>>),
      Parent("PolyStyle", <<Leaf("fill", <<"x">>)>>),
      Parent("PolyStyle", <<Leaf("color", Green), Leaf("fill", <<"f", "a", "l", "s", "e">>)>>),
      Parent("LineStyle", <<>>),
      Parent("LineStyle", <<Leaf("color", Green), Leaf("width", <<"3">>)>>),
      Parent("LabelStyle", <<>>),
      Parent("LabelStyle", <<Leaf("scale", <<"2">>)>>) }

CompositeInputs ==
    {Parent("Style", kids) :
        kids \in UNION {[1..n -> CompositeChildren] : n \in 0..MaxCompositeChildren}}

InitComposite ==
    /\ CodecIdle
    /\ stage = "style" /\ arg \in CompositeInputs /\ ret = <<>>

SpecComposite == InitComposite /\ [][NextIcon]_vars

\* the sub-styles of the Style with the tag, in document order
SubStylesOf(tag) == SelectSeq(arg.kids, LAMBDA kid : kid.tag = tag)

LastSubStyle(tag) == SubStylesOf(tag)[Len(SubStylesOf(tag))]

\* the children of the elements, one after the other
RECURSIVE KidsOfAll(_)
KidsOfAll(elements) ==
    IF elements = <<>> THEN <<>>
    ELSE elements[1].kids \o KidsOfAll(Tail(elements))

\* the texts of the flag in the PolyStyle elements that read as a boolean
FlagsGiven(flag) ==
    SelectSeq(KidsOfAll(SubStylesOf("PolyStyle")),
              LAMBDA kid : kid.tag = flag /\ readBoolean(kid.text) # None)

\* the flag is given, and false where it is given last
ExplicitlyFalse(flag) ==
    /\ FlagsGiven(flag) # <<>>
    /\ readBoolean(FlagsGiven(flag)[Len(FlagsGiven(flag))].text) = Some(FALSE)

\* the colour the element gives: that of its last colour child, else the
\* default colour
ColourGiven(element) ==
    LET colours == SelectSeq(element.kids, LAMBDA kid : kid.tag = "color")
    IN  IF colours = <<>> THEN DEFAULT_COLOR
        ELSE IF colours[Len(colours)].text = Red
        THEN <<Num(255), Num(0), Num(0), Num(1)>>
        ELSE <<Num(0), Num(255), Num(0), Num(1)>>

\* C23: Composite style assembly.  The fill of the style read is that of the
\* PolyStyle, the default fill without a PolyStyle, and null when the fill
\* flag is false; the stroke is that of the LineStyle, the default stroke of
\* width 1 without a LineStyle, and null when the outline flag is false; the
\* text is that of the LabelStyle, the default text style without one; a flag
\* that is not given disables neither the fill nor the stroke.
CompositeAssembly ==
    stage = "styleElementRead" =>
        /\ Len(ret) = 1
        /\ ret[1].fill =
              (IF ExplicitlyFalse("fill") THEN Null
               ELSE IF SubStylesOf("PolyStyle") = <<>> THEN DEFAULT_FILL_STYLE
               ELSE [color |-> ColourGiven(LastSubStyle("PolyStyle"))])
        /\ ret[1].stroke =
              (IF ExplicitlyFalse("outline") THEN Null
               ELSE IF SubStylesOf("LineStyle") = <<>>
               THEN [color |-> DEFAULT_COLOR, width |-> Some(Num(1))]
               ELSE [color |-> ColourGiven(LastSubStyle("LineStyle")),
                     width |-> IF LastSubStyle("LineStyle").kids = <<>> THEN Some(Num(1))
                               ELSE Some(Num(3))])
        /\ IF SubStylesOf("LabelStyle") = <<>>
           THEN /\ ret[1].text = DEFAULT_TEXT_STYLE
                /\ ret[1].text.font = Some("bold 16px Helvetica")
                /\ ret[1].text.scale = Some(Norm(8, -1))
           ELSE /\ ret[1].text.fill = [color |-> DEFAULT_COLOR]
                /\ ret[1].text.scale = (IF LastSubStyle("LabelStyle").kids = <<>> THEN None
                                        ELSE Some(Num(2)))
        /\ FlagsGiven("fill") = <<>> => ret[1].fill # Null
        /\ FlagsGiven("outline") = <<>> => ret[1].stroke # Null

\* a PolyStyle with a colour and the fill flag false, and a PolyStyle without
\* flags after it: no fill, and the default stroke
CompositeAssemblyWitness ==
    /\ stage = "styleElementRead"
    /\ arg.kids = <<Parent("PolyStyle", <<Leaf("color", Green),
                                          Leaf("fill", <<"f", "a", "l", "s", "e">>)>>),
                    Parent("PolyStyle", <<Leaf("color", Red)>>)>>
    /\ ret[1].fill = Null
    /\ ret[1].stroke = DEFAULT_STROKE_STYLE
    /\ ret[1].text = DEFAULT_TEXT_STYLE

(***************************************************************************)
(* Style maps under test: a StyleMap element of up to MaxPairs pairs, read *)
(* for its value and registered in an empty registry.                      *)
(***************************************************************************)
MaxPairs == 2

PairKeys == {<<>>, <<Leaf("key", <<"normal">>)>>, <<Leaf("key", <<"highlight">>)>>,
             <<Leaf("key", <<" ", "normal">>)>>}

PairValues ==
    { <<>>,
      <<StyleElement(NoAttributes, Red)>>,
      <<Leaf("styleUrl", <<"#", "a">>)>>,
      <<StyleElement(NoAttributes, Green), Leaf("styleUrl", <<"#", "a">>)>>,
      <<Leaf("styleUrl", <<"#", "b">>), StyleElement(NoAttributes, Red)>> }

Pairs == {Parent("Pair", key \o value) : key \in PairKeys, value \in PairValues}

StyleMapInputs ==
    {Element("StyleMap", WithId(<<"m">>), <<>>, kids) :
        kids \in UNION {[1..n -> Pairs] : n \in 0..MaxPairs}}

InitPairs ==
    /\ CodecIdle
    /\ stage = "stylemap" /\ arg \in StyleMapInputs /\ ret = <<>>

\* readStyleMapValue(node) and readSharedStyleMap_(node) with an empty
\* registry
ReadStyleMap ==
    /\ stage = "stylemap"
    /\ stage' = "stylemapRead"
    /\ ret' = [value |-> readStyleMapValue(arg, baseURI),
               sharedStyles |-> readSharedStyleMap_(arg, baseURI, sharedStyles_)]
    /\ UNCHANGED arg /\ CodecUnchanged

NextPairs == ReadStyleMap

SpecPairs == InitPairs /\ [][NextPairs]_vars

ChildrenTagged(node, tag) == SelectSeq(node.kids, LAMBDA kid : kid.tag = tag)

\* the pairs of the map whose key is normal and that hold a style or a URL
NormalPairs ==
    SelectSeq(arg.kids,
              LAMBDA pair : /\ ChildrenTagged(pair, "key") = <<Leaf("key", <<"normal">>)>>
                            /\ \/ ChildrenTagged(pair, "Style") # <<>>
                               \/ ChildrenTagged(pair, "styleUrl") # <<>>)

\* the value the pair gives: its style, else its URL
ValueOfPair(pair) ==
    IF ChildrenTagged(pair, "Style") # <<>>
    THEN [array |-> readStyle(ChildrenTagged(pair, "Style")[1])]
    ELSE [string |-> ChildrenTagged(pair, "styleUrl")[1].text]

\* C24: Style-map decode.  The value of a style map comes from a pair whose
\* key is exactly normal, and no other pair has a part in it; of a style and
\* a URL in that pair the value is the style array, else it is the one there
\* is; a map without normal pair has no value and is not registered.
StyleMapDecode ==
    stage = "stylemapRead" =>
        IF NormalPairs = <<>>
        THEN ret.value = None /\ ret.sharedStyles = <<>>
        ELSE /\ ret.value = Some(ValueOfPair(NormalPairs[Len(NormalPairs)]))
             /\ ret.sharedStyles
                    = <<[key |-> <<"#", "m">>, value |-> ValueOfPair(NormalPairs[Len(NormalPairs)])]>>

\* a highlight pair with a style and a normal pair with a URL and a style:
\* the value is the style of the normal pair
StyleMapDecodeWitness ==
    /\ stage = "stylemapRead"
    /\ arg.kids = <<Parent("Pair", <<Leaf("key", <<"highlight">>),
                                     StyleElement(NoAttributes, Red)>>),
                    Parent("Pair", <<Leaf("key", <<"normal">>),
                                     Leaf("styleUrl", <<"#", "b">>),
                                     StyleElement(NoAttributes, Red)>>)>>
    /\ ret.value = Some([array |-> readStyle(StyleElement(NoAttributes, Red))])
    /\ Len(ret.sharedStyles) = 1

(***************************************************************************)
(* The text the colour writer emits, under SpecColor.                      *)
(***************************************************************************)
TwoHexDigits(byte) == IF byte < 16 THEN <<"0">> \o NatToHex(byte) ELSE NatToHex(byte)

Clamped(n) == IF n < 0 THEN 0 ELSE IF n > 255 THEN 255 ELSE n

\* 255 times the alpha m * 10^e, e <= 0, to the nearest integer and cut
RoundedTimes255(alpha) ==
    (2 * 255 * alpha.m + Pow10(0 - alpha.e)) \div (2 * Pow10(0 - alpha.e))

TruncatedTimes255(alpha) == (255 * alpha.m) \div Pow10(0 - alpha.e)

\* the integer red, green or blue component
ComponentByte(x) == x.m * Pow10(x.e)

\* C25: Colour writing.  The colour writer emits eight lower-case hexadecimal
\* digits, two for each of alpha * 255, blue, green and red in this order,
\* each rounded to the nearest integer and clamped to 0..255.
ColourWriting ==
    stage = "colorWritten" =>
        ret.text = TwoHexDigits(Clamped(RoundedTimes255(arg[4])))
                   \o TwoHexDigits(Clamped(ComponentByte(arg[3])))
                   \o TwoHexDigits(Clamped(ComponentByte(arg[2])))
                   \o TwoHexDigits(Clamped(ComponentByte(arg[1])))

\* what does hold: on the alphas printed without an exponent the digits are
\* those of the components cut to their integer part
ColourWritingTruncated ==
    (stage = "colorWritten"
        /\ (arg[4].m = 0 \/ Len(NatToDigits(255 * arg[4].m)) + arg[4].e > -6)) =>
        ret.text = TwoHexDigits(TruncatedTimes255(arg[4]))
                   \o TwoHexDigits(ComponentByte(arg[3]))
                   \o TwoHexDigits(ComponentByte(arg[2]))
                   \o TwoHexDigits(ComponentByte(arg[1]))

\* the alpha 0.5 is written as 7f, the integer part of 127.5
ColourWritingOfHalf ==
    /\ stage = "colorWritten"
    /\ arg[4] = Norm(5, -1)
    /\ SubSeq(ret.text, 1, 2) = <<"7", "f">>

(***************************************************************************)
(* The text the coordinate reader leaves unread, under SpecCoord.          *)
(***************************************************************************)
\* where the text that no tuple matches starts
RECURSIVE RestAfterTuples(_, _)
RestAfterTuples(s, i) ==
    IF Len(TupleMatch(s, i)) < 2 THEN i
    ELSE RestAfterTuples(s, TupleMatch(s, i)[Len(TupleMatch(s, i))][2]
                            + SpaceRun(s, TupleMatch(s, i)[Len(TupleMatch(s, i))][2]))

\* C26: Coordinate parse failure.  The coordinate reader returns absent
\* exactly when text other than whitespace is left after the last tuple;
\* whitespace never fails the parse: a text that is empty or whitespace only
\* is read as the empty sequence.
CoordinateParseFailure ==
    stage = "coordsRead" =>
        (ret = Undefined <=>
            \E j \in RestAfterTuples(arg.text, 1)..Len(arg.text) : ~IsSpace(arg.text[j]))

\* what does hold: absent exactly when any text is left after the last tuple
CoordinateParseFailureOnAnyRest ==
    stage = "coordsRead" =>
        (ret = Undefined <=> RestAfterTuples(arg.text, 1) <= Len(arg.text))

\* a text of one space is read as absent, the empty text as the empty sequence
WhitespaceOnlyAbsent ==
    /\ stage = "coordsRead"
    /\ arg.text = <<" ">>
    /\ ret = Undefined

EmptyTextRead ==
    /\ stage = "coordsRead"
    /\ arg.text = <<>>
    /\ ret = <<>>

(***************************************************************************)
(* readVec2 under test on the attributes of a hotSpot element.             *)
(***************************************************************************)
UnitsValues == {None, Some("fraction"), Some("pixels"), Some("insetPixels"), Some("percent")}

OffsetValues == {None, Some(<<"1">>), Some(<<".", "5">>), Some(<<"x">>)}

AnchorInputs ==
    {HotSpotAttributes(x, y, xunits, yunits) :
        x \in OffsetValues, y \in OffsetValues, xunits \in UnitsValues, yunits \in UnitsValues}

InitAnchor ==
    /\ CodecIdle
    /\ stage = "anchor" /\ arg \in AnchorInputs /\ ret = <<>>

\* readVec2(node) on a hotSpot element of these attributes
ReadVec2 ==
    /\ stage = "anchor"
    /\ stage' = "anchorRead"
    /\ ret' = readVec2(arg)
    /\ UNCHANGED arg /\ CodecUnchanged

NextAnchor == ReadVec2

SpecAnchor == InitAnchor /\ [][NextAnchor]_vars

\* the corner the origin is to be for the two units
CornerOf(xunits, yunits) ==
    IF xunits # Some("insetPixels") /\ yunits # Some("insetPixels") THEN "bottom-left"
    ELSE IF xunits = Some("insetPixels") /\ yunits # Some("insetPixels") THEN "bottom-right"
    ELSE IF xunits # Some("insetPixels") /\ yunits = Some("insetPixels") THEN "top-left"
    ELSE "top-right"

\* C27, as stated: Anchor spec.  For every xunits and yunits, absent and
\* unknown values among them, the origin is bottom-left when neither is
\* insetPixels, bottom-right when xunits alone is, top-left when yunits alone
\* is, top-right when both are; the unit of an axis is fraction for the
\* attribute value fraction and pixels for anything else.
AnchorSpecPixelsOtherwise ==
    stage = "anchorRead" =>
        /\ ret.origin = CornerOf(arg.xunits, arg.yunits)
        /\ ret.xunits = (IF arg.xunits = Some("fraction") THEN Some("fraction") ELSE Some("pixels"))
        /\ ret.yunits = (IF arg.yunits = Some("fraction") THEN Some("fraction") ELSE Some("pixels"))

\* C27, as the code has it: the same origin; the unit of an axis is fraction
\* for fraction, pixels for pixels and insetPixels, and not set for an
\* attribute that is absent or has any other value.
AnchorSpec ==
    stage = "anchorRead" =>
        /\ ret.origin = CornerOf(arg.xunits, arg.yunits)
        /\ ret.xunits = (IF arg.xunits = Some("fraction") THEN Some("fraction")
                         ELSE IF arg.xunits \in {Some("pixels"), Some("insetPixels")}
                         THEN Some("pixels") ELSE None)
        /\ ret.yunits = (IF arg.yunits = Some("fraction") THEN Some("fraction")
                         ELSE IF arg.yunits \in {Some("pixels"), Some("insetPixels")}
                         THEN Some("pixels") ELSE None)

\* xunits insetPixels and no yunits: bottom-right, pixels on x and no unit
\* on y
AnchorSpecWitness ==
    /\ stage = "anchorRead"
    /\ arg.xunits = Some("insetPixels") /\ arg.yunits = None
    /\ ret.origin = "bottom-right"
    /\ ret.xunits = Some("pixels") /\ ret.yunits = None

(***************************************************************************)
(* Extended data under test: a placemark whose ExtendedData element holds  *)
(* up to MaxEntries Data elements.                                         *)
(***************************************************************************)
MaxEntries == 3

DataEntries ==
    { DataElement(WithName(<<"a">>), <<Leaf("value", <<"1">>)>>),
      DataElement(NoAttributes, <<Leaf("displayName", <<"b">>), Leaf("value", <<"2">>)>>),
      DataElement(NoAttributes, <<Leaf("value", <<"3">>)>>),
      DataElement(WithName(<<"c">>), <<Leaf("displayName", <<"d">>), Leaf("value", <<"4">>)>>),
      DataElement(NoAttributes, <<Leaf("displayName", <<"e">>)>>) }

EntryInputs == UNION {[1..n -> DataEntries] : n \in 0..MaxEntries}

InitData ==
    /\ CodecIdle
    /\ stage = "data" /\ arg \in EntryInputs /\ ret = <<>>

\* readPlacemark_ on a Placemark element whose ExtendedData holds the entries
ReadExtendedData ==
    /\ stage = "data"
    /\ stage' = "dataRead"
    /\ ret' = readPlacemark_(Parent("Placemark", <<Parent("ExtendedData", arg)>>), baseURI,
                             extractStyles_, defaultStyle_, sharedStyles_, showPointNames_)
    /\ UNCHANGED arg /\ CodecUnchanged

NextData == ReadExtendedData

SpecData == InitData /\ [][NextData]_vars

\* the key of the entry by itself: its name attribute, else the text of its
\* own displayName child, else none
OwnKey(entry) ==
    IF entry.attributes.name # None THEN entry.attributes.name
    ELSE IF ChildrenTagged(entry, "displayName") # <<>>
    THEN Some(ChildrenTagged(entry, "displayName")[1].text)
    ELSE None

\* the value of the entry by itself: the text of its value child
OwnValue(entry) ==
    IF ChildrenTagged(entry, "value") # <<>>
    THEN String(ChildrenTagged(entry, "value")[1].text)
    ELSE UndefinedValue

\* the properties the entries set, each by itself, from the i-th on
RECURSIVE OwnProperties(_, _, _)
OwnProperties(entries, i, properties) ==
    IF i > Len(entries) THEN properties
    ELSE OwnProperties(entries, i + 1,
            IF OwnKey(entries[i]) # None
            THEN Put(properties, OwnKey(entries[i])[1], OwnValue(entries[i]))
            ELSE properties)

SameProperties(a, b) ==
    /\ Keys(a) = Keys(b)
    /\ \A key \in Keys(a) : Get(a, key) = Get(b, key)

\* the properties of a feature other than its geometry
DataProperties(feature) == Delete(feature.properties, <<"geometry">>)

\* C28: Extended-data keys.  Every entry sets one property of the feature,
\* under its own name attribute or, without one, under the text of its own
\* displayName child, with its own value; an entry with neither sets none;
\* no key and no value comes from another entry.
ExtendedDataKeys ==
    stage = "dataRead" => SameProperties(DataProperties(ret), OwnProperties(arg, 1, <<>>))

\* what does hold for the entries that have a name attribute and no
\* displayName child, when no entry has a displayName child
ExtendedDataKeysOfNamed ==
    (stage = "dataRead"
        /\ \A i \in DOMAIN arg : arg[i].attributes.name # None
                                    /\ ChildrenTagged(arg[i], "displayName") = <<>>)
        => SameProperties(DataProperties(ret), OwnProperties(arg, 1, <<>>))

\* an entry without name and displayName after one with a displayName: its
\* value goes under the displayName of the other
KeyOfAnotherEntry ==
    /\ stage = "dataRead"
    /\ arg = <<DataElement(NoAttributes, <<Leaf("displayName", <<"e">>)>>),
               DataElement(NoAttributes, <<Leaf("value", <<"3">>)>>)>>
    /\ Get(ret.properties, <<"e">>) = String(<<"3">>)

(***************************************************************************)
(* Decoding a placemark and encoding the feature again.                    *)
(***************************************************************************)
MaxRoundChildren == 3

RoundChildren ==
    { Leaf("name", <<"N">>), Leaf("name", <<"M">>),
      PointElement(OnePosition), LineStringElement(OnePosition),
      StyleElement(NoAttributes, Red), Leaf("styleUrl", <<"#", "c">>) }

RoundInputs == UNION {[1..n -> RoundChildren] : n \in 0..MaxRoundChildren}

InitRound ==
    /\ defaultStyle_ = DEFAULT_STYLE_ARRAY
    /\ extractStyles_ \in BOOLEAN /\ writeStyles_ = TRUE /\ showPointNames_ = TRUE
    /\ sharedStyles_ = <<>>
    /\ pc = "idle" /\ baseURI = None
    /\ todo = <<>> /\ acc = <<>>
    /\ features = <<>> /\ lastStyle = <<>> /\ calls = <<>>
    /\ stage = "round" /\ arg \in RoundInputs /\ ret = <<>>

\* readPlacemark_ on the Placemark element, then writePlacemark on the feature
DecodeThenEncode ==
    /\ stage = "round"
    /\ stage' = "encoded"
    /\ ret' = writePlacemark(
                readPlacemark_(Parent("Placemark", arg), baseURI, extractStyles_,
                               defaultStyle_, sharedStyles_, showPointNames_),
                writeStyles_, sharedStyles_)
    /\ UNCHANGED arg /\ CodecUnchanged

NextRound == DecodeThenEncode

SpecRound == InitRound /\ [][NextRound]_vars

\* the placemark under decoding has a name
Named == ChildrenTagged(Parent("Placemark", arg), "name") # <<>>

\* the name of the placemark: the text of its last name element
NameGiven ==
    ChildrenTagged(Parent("Placemark", arg), "name")[
        Len(ChildrenTagged(Parent("Placemark", arg), "name"))].text

\* the Placemark written has one name element, with the name of the feature
NameWritten ==
    /\ ~Throws(ret)
    /\ Len(ChildrenTagged(ret, "name")) = 1
    /\ ChildrenTagged(ret, "name")[1].text = NameGiven

\* C29: Name survives decode then encode.  The feature decoded, with the
\* default options, from a placemark of name N is encoded as a placemark
\* whose name element has the text N: the style the decoder attached
\* neither removes nor replaces the name.
NameSurvives ==
    (stage = "encoded" /\ extractStyles_ /\ Named) => NameWritten

\* the name is written when the decoder attached no style function
NameSurvivesWithoutStyles ==
    (stage = "encoded" /\ ~extractStyles_ /\ Named) => NameWritten

\* with the style function of the decoder no name element is written
NameDroppedWithStyles ==
    (stage = "encoded" /\ extractStyles_) => ChildrenTagged(ret, "name") = <<>>

(***************************************************************************)
(* The features of a tree: a kml, Document or Placemark node whose         *)
(* placemarks have geometries and styles that decode, or fail to, beside   *)
(* elements no parser is for.                                              *)
(***************************************************************************)
MaxFeatureChildren == 3

\* a placemark of the name with these children
PlacemarkOf(name, kids) == Parent("Placemark", <<Leaf("name", <<name>>)>> \o kids)

FeatureChildren ==
    { PlacemarkOf("P", <<PointElement(OnePosition)>>),
      \* coordinates that do not parse: the placemark has no geometry
      PlacemarkOf("Q", <<PointElement(<<"x">>),
                         Parent("Style", <<Parent("IconStyle", <<Leaf("scale", <<"x">>)>>)>>)>>),
      \* a multi-geometry in a multi-geometry
      PlacemarkOf("R", <<Parent("MultiGeometry",
                            <<Parent("MultiGeometry", <<PointElement(OnePosition)>>)>>)>>),
      Parent("Folder", <<Leaf("Snippet", <<>>), PlacemarkOf("S", <<Leaf("Snippet", <<>>)>>)>>),
      StyleElement(WithId(<<"c">>), Red),
      \* a placemark below an element that no parser is for
      Parent("Snippet", <<PlacemarkOf("T", <<>>)>>) }

FeatureTrees ==
    {Parent(tag, kids) :
        tag \in {"kml", "Document"},
        kids \in UNION {[1..n -> FeatureChildren] : n \in 0..MaxFeatureChildren}}
    \cup {child \in FeatureChildren : child.tag = "Placemark"}

InitFeatures ==
    /\ defaultStyle_ = DEFAULT_STYLE_ARRAY
    /\ extractStyles_ = TRUE /\ writeStyles_ = TRUE /\ showPointNames_ = TRUE
    /\ sharedStyles_ = <<>>
    /\ pc = "idle" /\ baseURI = None
    /\ todo = <<>> /\ acc = <<>>
    /\ features = <<>> /\ lastStyle = <<>> /\ calls = <<>>
    /\ stage = "document" /\ arg \in FeatureTrees /\ ret = <<>>

NextFeatures ==
    \/ ReadOrderDocument
    \/ ReadKml
    \/ ReadDocumentOrFolder
    \/ ReadSharedStyle
    \/ ReadPlacemark
    \/ SkipElement
    \/ ReturnFeatures

SpecFeatures == InitFeatures /\ [][NextFeatures]_vars

\* the Placemark elements reachable from the children through Document and
\* Folder elements, in document order
RECURSIVE PlacemarksThrough(_, _)
PlacemarksThrough(kids, i) ==
    IF i > Len(kids) THEN <<>>
    ELSE (IF kids[i].tag = "Placemark" THEN <<kids[i]>>
          ELSE IF kids[i].tag \in {"Document", "Folder"} THEN PlacemarksThrough(kids[i].kids, 1)
          ELSE <<>>)
         \o PlacemarksThrough(kids, i + 1)

\* the Placemark elements reachable from the node of the call
PlacemarksReachable ==
    IF arg.tag = "Placemark" THEN <<arg>> ELSE PlacemarksThrough(arg.kids, 1)

\* C30: One feature per placemark.  Decoding a root, container or placemark
\* node returns one feature for every placemark reachable from it through
\* nested containers, in document order, also when the geometry or the style
\* of a placemark fails to decode and whatever unrecognised elements there
\* are.
OneFeaturePerPlacemark == Returned => FeatureNodes = PlacemarksReachable

\* what does hold: one feature per placemark when no placemark reachable has
\* a multi-geometry for which the assertion of readMultiGeometry fails
OneFeaturePerPlacemarkRead ==
    (Returned /\ \A i \in DOMAIN PlacemarksReachable : ~PlacemarkThrows(PlacemarksReachable[i]))
        => FeatureNodes = PlacemarksReachable

\* a placemark whose geometry fails to decode gives a feature without geometry
FeatureWithoutGeometry ==
    /\ Returned
    /\ \E i \in DOMAIN features :
          /\ features[i].node = PlacemarkOf("Q", <<PointElement(<<"x">>),
                 Parent("Style", <<Parent("IconStyle", <<Leaf("scale", <<"x">>)>>)>>)>>)
          /\ Get(features[i].feature.properties, <<"geometry">>) = Null
    /\ Len(features) = 3

=============================================================================
